---- MODULE Spec2Model ----
(***************************************************************************)
(* mubsub-es: a pub/sub channel on a MongoDB collection.                   *)
(*                                                                         *)
(* The model follows lib/channel.js (class Channel) and the newest         *)
(* lib/connection.js.  A channel is a record; every asynchronous store     *)
(* operation the channel has issued is a position of one of its two flows  *)
(* (cpc: collection creation, lpc: listener), and the action that          *)
(* completes the operation applies the store's effect and runs the         *)
(* continuation (.then/.catch) the code attached to it.                    *)
(*                                                                         *)
(* The store is the external collaborator: one collection (all channels    *)
(* use the same name), documents in natural order whose identifiers grow   *)
(* with insertion, and an optional TTL index.  Documents are never removed *)
(* (no capped eviction, no TTL expiry).  A tailable cursor on a collection *)
(* that is not capped is refused by the store.                             *)
(*                                                                         *)
(* startTailableListener and startPollingListener are only ever called     *)
(* with latest undefined: the one call that passes a document is           *)
(* self.create().listen(latest), which cannot run (see BrokenCursorTimer). *)
(*                                                                         *)
(* Specifications: Spec is the channel in every configuration with store   *)
(* faults; LiveSpec adds the fair schedule; QueueSpec lets the application *)
(* publish in a burst; SubSpec, RouteSpec and CloseSpec add the            *)
(* application's subscriptions on a store that answers every operation,    *)
(* OrderSpec with failing fetches; PairSpec and FanSpec run two channels   *)
(* of two clients on one collection, FanSpec in any mode under a fair      *)
(* schedule; ConfigSpec starts from the options object the application     *)
(* passes; ConnSpec follows the connection's state and close(); RegSpec    *)
(* the channels a connection hands out; NameSpec publishes envelopes whose *)
(* event is 'ready', 'collection' or 'error', names the channel's emitter  *)
(* also uses for its own notifications; LoopSpec counts every store        *)
(* operation and timer a channel has outstanding, so that two listener     *)
(* loops on one channel are a state it can tell from one.                  *)
(***************************************************************************)
EXTENDS Integers, Sequences, FiniteSets, TLC

\* ---------------------------------------------------------------- bounds
MaxDocs == 3        \* documents the collection may hold in a run
MaxPublish == 1     \* publish() calls per channel in a run
MaxBurst == 2       \* publish() calls per channel in a run of QueueSpec
MaxSubs == 2        \* subscribe() calls per channel in a run
MaxUnsubscribe == 2 \* unsubscribe() calls per subscription object
MaxChannels == 2    \* Channel instances a connection creates in a run

Chans == {"c1"}
Events == {"a"}
None == "none"

\* options.pollTtlSeconds after the constructor's typeof check: unset is 0
TtlValues == {-1, 0, 60}

VARIABLES
    db,        \* the store: collection existence, kind, documents, TTL index
    backend,   \* what the store supports: "full" | "nocapped"
    ch         \* the channels (one record per Channel instance)

vars == <<db, backend, ch>>

\* ------------------------------------------------------------ store errors
\* An error is a codeName and a message; a message is its sequence of words
\* (punctuation marks are words of their own).
ErrNamespaceExists ==
    [codeName |-> "NamespaceExists",
     message |-> <<"Collection", "mubsub", "already", "exists", ".">>]
ErrCappedUnsupported ==
    [codeName |-> "CommandNotSupported",
     message |-> <<"Feature", "not", "supported", ":", "capped">>]
ErrTailableOnPlain ==
    [codeName |-> "BadValue",
     message |-> <<"tailable", "cursor", "requested", "on", "non", "capped",
                   "collection">>]
ErrNetwork ==
    [codeName |-> "HostUnreachable", message |-> <<"connection", "timed", "out">>]
ErrIllegalOperation ==
    [codeName |-> "IllegalOperation",
     message |-> <<"operation", "not", "permitted">>]
ErrBrokenCursor ==
    [codeName |-> "", message |-> <<"Mubsub", ":", "broken", "cursor", ".">>]

\* String.prototype.toLowerCase on the words the errors use
Lower(w) ==
    CASE w = "NOT" -> "not"
      [] w = "Collection" -> "collection"
      [] w = "Feature" -> "feature"
      [] w = "Mubsub" -> "mubsub"
      [] w = "NamespaceExists" -> "namespaceexists"
      [] w = "CommandNotSupported" -> "commandnotsupported"
      [] w = "IllegalOperation" -> "illegaloperation"
      [] w = "HostUnreachable" -> "hostunreachable"
      [] w = "BadValue" -> "badvalue"
      [] OTHER -> w

LowerMsg(m) == [i \in 1..Len(m) |-> Lower(m[i])]

\* String.prototype.includes, on word sequences
Includes(m, kw) ==
    \E i \in 1..Len(m) :
        /\ i + Len(kw) - 1 <= Len(m)
        /\ \A j \in 1..Len(kw) : m[i + j - 1] = kw[j]

\* mutant: only the exact lower-case message is recognised
collectionExistsErrorExactOnly(err) ==
    err.message = <<"collection", "already", "exists">>

\* the collectionExistsError expression of createCapped and createPolling
collectionExistsError(err) ==
    \/ err.codeName = "NamespaceExists"
    \/ err.message = <<"collection", "already", "exists">>
    \/ Includes(LowerMsg(err.message), <<"collection", "already", "exists">>)
    \/ /\ Len(err.message) >= 5
       /\ err.message[1] = "a" /\ err.message[2] = "collection"
       /\ err.message[Len(err.message) - 1] = "already"
       /\ err.message[Len(err.message)] = "exists"
    \/ /\ Len(err.message) >= 5
       /\ err.message[1] = "Collection"
       /\ err.message[Len(err.message) - 2] = "already"
       /\ err.message[Len(err.message) - 1] = "exists"
       /\ err.message[Len(err.message)] = "."

isCappedUnsupportedError(err) ==
    LET message == LowerMsg(err.message)
        codeName == Lower(err.codeName)
    IN  \/ Includes(message, <<"not", "capped">>)
        \/ Includes(message, <<"capped">>)
        \/ Includes(message, <<"tailable">>)
        \/ Includes(message, <<"special">>)
        \/ Includes(message, <<"unsupported">>)
        \/ codeName = "commandnotsupported"
        \/ codeName = "illegaloperation"

\* new Error(`${err.message}, but it's NOT capped.`)
NotCappedError(err) ==
    [codeName |-> "",
     message |-> err.message \o <<",", "but", "it's", "NOT", "capped", ".">>]

\* does the error message say the collection is not capped (test/channel.js:301)
SaysNotCapped(err) == Includes(LowerMsg(err.message), <<"not", "capped">>)

NoErr == [codeName |-> "", message |-> <<>>]

\* ---------------------------------------------------------------- channel
Modes == {"auto", "capped", "polling"}
Options == [mode : Modes, pollTtlSeconds : TtlValues, recreate : BOOLEAN]

\* mutant: create / openCollection run in the constructor whether or not the
\* connection has its handle
ConstructCreatesAtOnce(o) ==
    [ mode |-> o.mode, pollTtlSeconds |-> o.pollTtlSeconds, recreate |-> o.recreate,
      connDb |-> FALSE, destroyed |-> FALSE,
      closed |-> FALSE, collection |-> FALSE, transport |-> None,
      listening |-> FALSE, pollingTimer |-> FALSE,
      cpc |-> IF o.mode = "polling" THEN "createPolling" ELSE "createCapped",
      lkind |-> IF o.mode = "polling" THEN "poll" ELSE "tail",
      allowFallback |-> (o.mode = "auto"),
      lpc |-> "waitColl",
      bootDoc |-> 0, latest |-> -1,
      wm0 |-> -1, bootLen |-> -1,
      pubs |-> <<>>, errors |-> {}, dispatched |-> <<>>,
      readies |-> 0, indexOps |-> 0, uncaught |-> FALSE,
      via |-> None, cappedErr |-> NoErr, absorbed |-> NoErr,
      subs |-> <<>>, handles |-> <<>>, calls |-> <<>>, issued |-> <<>> ]
\* new Channel(connection, name, options): the constructor, then
\* initializeTransport().  The connection has no db handle yet, so the create
\* function waits for 'connect' and the listener's latest() waits for
\* 'collection'.
Construct(o) ==
    [ mode |-> o.mode, pollTtlSeconds |-> o.pollTtlSeconds, recreate |-> o.recreate,
      connDb |-> FALSE, destroyed |-> FALSE,
      closed |-> FALSE, collection |-> FALSE, transport |-> None,
      listening |-> FALSE, pollingTimer |-> FALSE,
      cpc |-> IF o.mode = "polling" THEN "wcPolling" ELSE "wcCapped",
      lkind |-> IF o.mode = "polling" THEN "poll" ELSE "tail",
      allowFallback |-> (o.mode = "auto"),
      lpc |-> "waitColl",
      bootDoc |-> 0, latest |-> -1,
      wm0 |-> -1, bootLen |-> -1,
      pubs |-> <<>>, errors |-> {}, dispatched |-> <<>>,
      readies |-> 0, indexOps |-> 0, uncaught |-> FALSE,
      via |-> None, cappedErr |-> NoErr, absorbed |-> NoErr,
      subs |-> <<>>, handles |-> <<>>, calls |-> <<>>, issued |-> <<>> ]

Init ==
    /\ db = [exists |-> FALSE, capped |-> FALSE, docs |-> <<>>, ttl |-> 0]
    /\ backend \in {"full", "nocapped"}
    /\ ch \in [Chans -> {Construct(o) : o \in Options}]

\* ------------------------------------------------------- channel helpers
\* self.emit('error', err); `at` names the place that emitted it
EmitError(r, at, err) ==
    [r EXCEPT !.errors = @ \cup {[at |-> at, err |-> err]}]

\* mutant: the guard does not look at the connection
handleReturnsClosedOnly(r) == r.closed
\* the guard every function returned by handle() starts with
handleReturns(r) == r.closed \/ r.destroyed

\* latest(): this.collection ? onCollection(this.collection)
\*                           : this.once('collection', onCollection)
latest(r) ==
    [r EXCEPT !.lpc = IF r.collection THEN "find" ELSE "waitColl"]

\* self.emit('collection', self.collection): runs the pending onCollection,
\* which issues the newest-document read
EmitCollection(r) ==
    [r EXCEPT !.cpc = "idle",
              !.lpc = IF r.lpc = "waitColl" THEN "find" ELSE @]

\* self.emit('ready', collection): every publish queued by ready() issues its
\* insertOne, in the order the once('ready') listeners were added
\* the publishes waiting on once('ready'), in the order ready() added them
Queued(r) ==
    SelectSeq([i \in 1..Len(r.pubs) |-> i], LAMBDA i : r.pubs[i].st = "queued")

Reverse(q) == [i \in 1..Len(q) |-> q[Len(q) + 1 - i]]

\* mutant: the waiting publishes run newest first
EmitReadyNewestFirst(r) ==
    [r EXCEPT !.readies = @ + 1,
              !.issued = @ \o Reverse(Queued(r)),
              !.pubs = [i \in DOMAIN @ |->
                          IF @[i].st = "queued"
                          THEN [@[i] EXCEPT !.st = "inflight"] ELSE @[i]]]

EmitReady(r) ==
    [r EXCEPT !.readies = @ + 1,
              !.issued = @ \o Queued(r),
              !.pubs = [i \in DOMAIN @ |->
                          IF @[i].st = "queued"
                          THEN [@[i] EXCEPT !.st = "inflight"] ELSE @[i]]]

\* mutant: only the falsy test, a negative value reaches createIndex
SkipsTtlIndexFalsyOnly(pollTtlSeconds) == pollTtlSeconds = 0

\* ensurePollingTtlIndex: resolves at once when the option is falsy or <= 0
SkipsTtlIndex(pollTtlSeconds) == pollTtlSeconds = 0 \/ pollTtlSeconds <= 0

\* the body shared by createPolling's success and already-exists branches:
\* set the collection and the transport, then ensurePollingTtlIndex, then
\* emit 'collection'
ensurePollingTtlIndex(r) ==
    IF SkipsTtlIndex(r.pollTtlSeconds)
    THEN EmitCollection(r)
    ELSE [r EXCEPT !.cpc = "ttlIndex", !.indexOps = @ + 1]

OpenedPolling(r) ==
    ensurePollingTtlIndex([r EXCEPT !.collection = TRUE, !.transport = "polling"])

\* mutant: the capped branch runs the TTL step as createPolling does
OpenedCappedWithTtl(r, via) ==
    ensurePollingTtlIndex([r EXCEPT !.collection = TRUE, !.transport = "capped",
                                    !.via = via])

\* createCapped's branches that end with a capped collection: created, or
\* existing and isCapped(); `via` records which
OpenedCapped(r, via) ==
    EmitCollection([r EXCEPT !.collection = TRUE, !.transport = "capped",
                             !.via = via])

\* mutant: the fallback to polling does not ask for mode auto
ExistingNotCappedAnyMode(r, err) ==
    EmitCollection([r EXCEPT !.collection = TRUE, !.transport = "polling",
                             !.via = "existingPlain"])

\* createCapped's branch for an existing collection that is not capped
ExistingNotCapped(r, err) ==
    IF r.mode = "auto"
    THEN EmitCollection([r EXCEPT !.collection = TRUE, !.transport = "polling",
                                  !.via = "existingPlain"])
    ELSE [EmitError(r, "create", NotCappedError(err))
            EXCEPT !.cpc = "idle", !.via = "existingPlain"]

\* mutant: in mode auto every creation error falls back to polling
CreateCappedFailedBlind(r, err) ==
    IF r.mode = "auto"
    THEN [r EXCEPT !.cpc = "createPolling", !.cappedErr = err,
                   !.via = "createUnsupported"]
    ELSE [EmitError(r, "create", err) EXCEPT !.cpc = "idle", !.cappedErr = err]

\* createCapped's branch for an error that is not 'already exists'
CreateCappedFailed(r, err) ==
    IF r.mode = "auto" /\ isCappedUnsupportedError(err)
    THEN [r EXCEPT !.cpc = "createPolling", !.cappedErr = err,
                   !.via = "createUnsupported"]
    ELSE [EmitError(r, "create", err) EXCEPT !.cpc = "idle", !.cappedErr = err]

\* -------------------------------------------------------------- connection
\* MongoClient.connect resolved: self.db is set and 'connect' is emitted, which
\* runs the create / openCollection function waiting on it
onConnect(r) ==
    [r EXCEPT !.connDb = TRUE,
              !.cpc = CASE @ = "wcCapped" -> "createCapped"
                        [] @ = "wcPolling" -> "createPolling"
                        [] OTHER -> @]

Connect(c) ==
    /\ ~ch[c].connDb
    /\ ch' = [ch EXCEPT ![c] = onConnect(@)]
    /\ UNCHANGED <<db, backend>>

\* Connection.close(): this.destroyed = true
ConnClose(c) ==
    /\ ~ch[c].destroyed
    /\ ch' = [ch EXCEPT ![c].destroyed = TRUE]
    /\ UNCHANGED <<db, backend>>

\* ------------------------------------------------------ collection creation
\* db.createCollection(name, {capped: true, size, max}) resolves
CreateCappedOk(c) ==
    /\ ch[c].cpc = "createCapped"
    /\ ~db.exists /\ backend = "full"
    /\ db' = [db EXCEPT !.exists = TRUE, !.capped = TRUE]
    /\ ch' = [ch EXCEPT ![c] = OpenedCapped(@, "created")]
    /\ UNCHANGED backend

\* the errors createCollection(name, {capped: true}) can reject with
CreateCappedErrors ==
    (IF db.exists THEN {ErrNamespaceExists} ELSE {})
        \cup (IF backend = "nocapped" THEN {ErrCappedUnsupported} ELSE {})
        \cup {ErrNetwork}

\* ... rejects: 'already exists' asks isCapped(), other errors are classified
CreateCappedErr(c) ==
    /\ ch[c].cpc = "createCapped"
    /\ \E err \in CreateCappedErrors :
          ch' = [ch EXCEPT ![c] =
                    IF collectionExistsError(err)
                    THEN [@ EXCEPT !.cpc = "isCapped"]
                    ELSE CreateCappedFailed(@, err)]
    /\ UNCHANGED <<db, backend>>

\* collection.isCapped() resolves
IsCappedDone(c) ==
    /\ ch[c].cpc = "isCapped"
    /\ db.exists
    /\ ch' = [ch EXCEPT ![c] =
                IF ~db.capped
                THEN ExistingNotCapped(@, ErrNamespaceExists)
                ELSE OpenedCapped(@, "existingCapped")]
    /\ UNCHANGED <<db, backend>>

\* collection.isCapped() rejects: the promise has no catch, nothing is emitted
\* and the creation ends there
IsCappedErr(c) ==
    /\ ch[c].cpc = "isCapped"
    /\ ch' = [ch EXCEPT ![c].cpc = "idle"]
    /\ UNCHANGED <<db, backend>>

\* db.createCollection(name) resolves
CreatePollingOk(c) ==
    /\ ch[c].cpc = "createPolling"
    /\ ~db.exists
    /\ db' = [db EXCEPT !.exists = TRUE, !.capped = FALSE]
    /\ ch' = [ch EXCEPT ![c] = OpenedPolling(@)]
    /\ UNCHANGED backend

CreatePollingErrors ==
    (IF db.exists THEN {ErrNamespaceExists} ELSE {}) \cup {ErrNetwork}

\* ... rejects
CreatePollingErr(c) ==
    /\ ch[c].cpc = "createPolling"
    /\ \E err \in CreatePollingErrors :
          ch' = [ch EXCEPT ![c] =
                    IF collectionExistsError(err)
                    THEN OpenedPolling(@)
                    ELSE [EmitError(@, "create", err) EXCEPT !.cpc = "idle"]]
    /\ UNCHANGED <<db, backend>>

\* collection.createIndex({_ts: 1}, {expireAfterSeconds, name}) resolves
TtlIndexOk(c) ==
    /\ ch[c].cpc = "ttlIndex"
    /\ db.ttl \in {0, ch[c].pollTtlSeconds}
    /\ db' = [db EXCEPT !.ttl = ch[c].pollTtlSeconds]
    /\ ch' = [ch EXCEPT ![c] = EmitCollection(@)]
    /\ UNCHANGED backend

\* mutant: the index error is reported and the channel opens all the same
TtlIndexErrGoesOn(c) ==
    /\ ch[c].cpc = "ttlIndex"
    /\ ch' = [ch EXCEPT ![c] = EmitCollection(EmitError(@, "ttl", ErrNetwork))]
    /\ UNCHANGED <<db, backend>>

\* ... rejects
TtlIndexErr(c) ==
    /\ ch[c].cpc = "ttlIndex"
    /\ ch' = [ch EXCEPT ![c] = [EmitError(@, "ttl", ErrNetwork) EXCEPT !.cpc = "idle"]]
    /\ UNCHANGED <<db, backend>>

\* ------------------------------------------------------------------ store
Doc(event, dummy, src) == [event |-> event, dummy |-> dummy, src |-> src]

\* insertOne: the store assigns the next identifier (the position in natural
\* order); the implicit creation of a missing collection gives a plain one
Inserted(d, doc) ==
    [d EXCEPT !.docs = Append(@, doc),
              !.capped = IF d.exists THEN @ ELSE FALSE,
              !.exists = TRUE]

\* ----------------------------------------------------------------- emitter
\* close(): closed = true, the pending poll timer is cleared
close(r) ==
    [r EXCEPT !.closed = TRUE,
              !.pollingTimer = FALSE,
              !.lpc = IF r.pollingTimer /\ @ = "pollTimer" THEN "stopped" ELSE @]

\* The application's callbacks, named by what the function does when it is
\* invoked: nothing; subscription.unsubscribe() on its own subscription;
\* channel.close(); client.close()
Fns == {"plain", "leaver", "closer", "ender"}

\* the event names a subscription asks for; None is subscribe(callback)
SubNames == {"a", "document", None}

\* the listener array of `name`: the callbacks in the order they were added
listeners(r, name) ==
    LET regs == SelectSeq(r.subs, LAMBDA s : s.event = name)
    IN  [i \in 1..Len(regs) |-> regs[i].fn]

\* the positions in r.subs of the registrations of fn for name
Positions(r, name, fn) ==
    {i \in DOMAIN r.subs : r.subs[i] = [event |-> name, fn |-> fn]}

Max(S) == CHOOSE x \in S : \A y \in S : y <= x

RemoveAt(q, i) == SubSeq(q, 1, i - 1) \o SubSeq(q, i + 1, Len(q))

\* EventEmitter.removeListener(name, fn): at most one instance is removed, the
\* most recently added one
removeListener(r, name, fn) ==
    IF Positions(r, name, fn) = {} THEN r
    ELSE [r EXCEPT !.subs = RemoveAt(@, Max(Positions(r, name, fn)))]

\* subscription.unsubscribe() on the k-th subscription object returned
unsubscribe(r, k) ==
    [removeListener(r, r.handles[k].event, r.handles[k].fn)
        EXCEPT !.handles[k].unsubs = @ + 1]

\* subscribe(event, callback): a function in place of the event subscribes
\* 'message'; the object returned remembers (event, callback)
subscribe(r, event, fn) ==
    LET name == IF event = None THEN "message" ELSE event
    IN  [r EXCEPT !.subs = Append(@, [event |-> name, fn |-> fn]),
                  !.handles = Append(@, [event |-> name, fn |-> fn, unsubs |-> 0])]

\* what a callback does when it is called by emit(name, ...)
Callback(r, name, fn) ==
    CASE fn = "leaver" ->
            unsubscribe(r, Max({k \in DOMAIN r.handles :
                                   /\ r.handles[k].event = name
                                   /\ r.handles[k].fn = fn}))
      [] fn = "closer" -> close(r)
      [] fn = "ender" -> [r EXCEPT !.destroyed = TRUE]
      [] OTHER -> r

\* the calls of one emit: `ls` is the copy of the listener array taken when
\* the emit started; `call` says what is emitted (the event name, the argument,
\* the envelope, and whether the channel and the connection were closed when
\* the envelope's dispatch began)
RECURSIVE invoke(_, _, _)
invoke(r, ls, call) ==
    IF ls = <<>> THEN r
    ELSE LET fn == Head(ls)
             called == [r EXCEPT !.calls = Append(@, [fn |-> fn] @@ call)]
         IN  invoke(Callback(called, call.name, fn), Tail(ls), call)

\* what an envelope's payload is when it is emitted as 'error'
PayloadAsError == [codeName |-> "", message |-> <<"payload">>]

\* The channel is the emitter of its own notifications too, so an emit of an
\* envelope's event name also runs the channel's own listeners of that name:
\* a publish waiting on once('ready') and a bootstrap waiting on
\* once('collection') are removed and called with the payload in the place
\* of the collection, where payload.insertOne / payload.find is a TypeError;
\* 'error' goes to whoever listens to the channel's errors.
own(r, name) ==
    CASE name = "ready" /\ Queued(r) # <<>> ->
            [r EXCEPT !.pubs[Head(Queued(r))].st = "dropped", !.uncaught = TRUE]
      [] name = "collection" /\ r.lpc = "waitColl" ->
            [r EXCEPT !.lpc = "stopped", !.uncaught = TRUE]
      [] name = "error" -> EmitError(r, "envelope", PayloadAsError)
      [] OTHER -> r

\* self.emit(name, arg): the channel's own listeners, then the application's
\* subscribers
emit(r, name, arg, at) ==
    invoke(own(r, name), listeners(r, name), [name |-> name, arg |-> arg] @@ at)
\* --------------------------------------------------------------- listeners
\* mutant: the event and 'message' are emitted whether or not the document
\* has an event
DispatchUnguarded(r, id) ==
    LET doc == db.docs[id]
        at == [id |-> id, closed |-> r.closed, destroyed |-> r.destroyed]
        seen == [r EXCEPT !.latest = id, !.dispatched = Append(@, id)]
        named == emit(emit(seen, doc.event, "message", at), "message", "message", at)
    IN  emit(named, "document", "doc", at)

\* the document handler shared by both listeners: latest = doc (cursor = doc),
\* then emit(doc.event, doc.message), emit('message'), emit('document')
Dispatch(r, id) ==
    LET doc == db.docs[id]
        at == [id |-> id, closed |-> r.closed, destroyed |-> r.destroyed]
        seen == [r EXCEPT !.latest = id, !.dispatched = Append(@, id)]
        named == IF doc.event # None
                 THEN emit(emit(seen, doc.event, "message", at),
                           "message", "message", at)
                 ELSE seen
    IN  emit(named, "document", "doc", at)

\* poll(): returns when closed or destroyed, else issues the find
poll(r) ==
    [r EXCEPT !.lpc = IF r.closed \/ r.destroyed THEN "stopped" ELSE "pollFetch"]

\* the callback of startTailableListener: open the tailable cursor above
\* latest, more(), self.listening = collection, emit 'ready'
TailableCallback(r, id) ==
    EmitReady([r EXCEPT !.latest = id, !.wm0 = id, !.lpc = "tailNext",
                        !.listening = TRUE])

\* mutant: the polling cursor starts from the sentinel, not from the document
\* latest() found
PollingCallbackFromSentinel(r, id) ==
    poll(EmitReady([r EXCEPT !.latest = 0, !.wm0 = id, !.listening = TRUE]))

\* the callback of startPollingListener: self.listening = collection,
\* emit 'ready', poll()
PollingCallback(r, id) ==
    poll(EmitReady([r EXCEPT !.latest = id, !.wm0 = id, !.listening = TRUE]))

\* mutant: the fallback to polling does not look at what the error says
recoveryBlind(r, err) == r.allowFallback /\ r.mode = "auto"

\* the recovery function startTailableListener passes to handle()
recovery(r, err) ==
    r.allowFallback /\ r.mode = "auto" /\ isCappedUnsupportedError(err)

\* what recovery does when it applies: self.collection = null,
\* createPolling() and startPollingListener(latest); handle() returns without
\* emitting the error (absorbed records it)
Fallback(r, err) ==
    latest([r EXCEPT !.collection = FALSE,
                     !.cpc = "createPolling",
                     !.lkind = "poll",
                     !.via = "bootUnsupported",
                     !.absorbed = err])

\* the function handle(true, callback, recovery) returns, called by latest()
\* with (err, doc, collection)
handle(r, err, id) ==
    IF handleReturns(r) THEN [r EXCEPT !.lpc = "stopped"]
    ELSE IF err # NoErr
         THEN IF r.lkind = "tail" /\ recovery(r, err)
              THEN Fallback(r, err)
              ELSE [EmitError(r, "bootstrap", err) EXCEPT !.lpc = "stopped"]
         ELSE IF r.lkind = "tail"
              THEN TailableCallback(r, id)
              ELSE PollingCallback(r, id)

BootErrors == {ErrNetwork, ErrIllegalOperation}

\* latest(): find().hint({$natural: -1}).limit(1).next() resolves
BootFindOk(c) ==
    /\ ch[c].lpc = "find"
    /\ LET n == Len(db.docs)
           r == [ch[c] EXCEPT !.bootLen = n]
       IN  ch' = [ch EXCEPT ![c] =
                    IF n > 0 THEN [r EXCEPT !.lpc = "findGt", !.bootDoc = n]
                    ELSE IF r.lkind = "poll" THEN handle(r, NoErr, 0)
                    ELSE [r EXCEPT !.lpc = "insertDummy"]]
    /\ UNCHANGED <<db, backend>>

\* ... rejects
BootFindErr(c) ==
    /\ ch[c].lpc = "find"
    /\ \E err \in BootErrors : ch' = [ch EXCEPT ![c] = handle(@, err, 0)]
    /\ UNCHANGED <<db, backend>>

\* latest(): findOne({_id: {$gt: doc._id}}, {sort: {_id: -1}}) resolves
BootFindGtOk(c) ==
    /\ ch[c].lpc = "findGt"
    /\ LET n == Len(db.docs)
           id == IF n > ch[c].bootDoc THEN n ELSE ch[c].bootDoc
       IN  ch' = [ch EXCEPT ![c] = handle([@ EXCEPT !.bootDoc = 0], NoErr, id)]
    /\ UNCHANGED <<db, backend>>

\* mutant: a failed second read is reported and ends the bootstrap
BootFindGtErrReports(c) ==
    /\ ch[c].lpc = "findGt"
    /\ ch' = [ch EXCEPT ![c] = handle([@ EXCEPT !.bootDoc = 0], ErrNetwork, 0)]
    /\ UNCHANGED <<db, backend>>
\* ... rejects: console.warn, the first document is used
BootFindGtErr(c) ==
    /\ ch[c].lpc = "findGt"
    /\ ch' = [ch EXCEPT ![c] = handle([@ EXCEPT !.bootDoc = 0], NoErr, @.bootDoc)]
    /\ UNCHANGED <<db, backend>>

\* latest(): insertOne({dummy: true}) resolves
BootInsertOk(c) ==
    /\ ch[c].lpc = "insertDummy"
    /\ Len(db.docs) < MaxDocs
    /\ db' = Inserted(db, Doc(None, TRUE, c))
    /\ ch' = [ch EXCEPT ![c] = handle(@, NoErr, Len(db.docs) + 1)]
    /\ UNCHANGED backend

\* ... rejects
BootInsertErr(c) ==
    /\ ch[c].lpc = "insertDummy"
    /\ \E err \in BootErrors : ch' = [ch EXCEPT ![c] = handle(@, err, 0)]
    /\ UNCHANGED <<db, backend>>

\* the function `next` (handle without exit or recovery) called with a document
TailNextDoc(c) ==
    /\ ch[c].lpc = "tailNext"
    /\ db.capped /\ Len(db.docs) > ch[c].latest
    /\ ch' = [ch EXCEPT ![c] =
                IF handleReturns(@) THEN [@ EXCEPT !.lpc = "stopped"]
                ELSE Dispatch(@, @.latest + 1)]
    /\ UNCHANGED <<db, backend>>

\* the errors cursor.next() can reject with: a tailable cursor on a collection
\* that is not capped is refused by the store
TailErrors == IF db.capped THEN {ErrNetwork} ELSE {ErrTailableOnPlain}

\* `next` called with an error: it is emitted, then the callback runs with no
\* document and arms the broken-cursor timer
TailNextErr(c) ==
    /\ ch[c].lpc = "tailNext"
    /\ \E err \in TailErrors :
          ch' = [ch EXCEPT ![c] =
                    IF handleReturns(@) THEN [@ EXCEPT !.lpc = "stopped"]
                    ELSE [EmitError(@, "cursor", err) EXCEPT !.lpc = "brokenDelay"]]
    /\ UNCHANGED <<db, backend>>

\* cursor.next() resolves with no document: the cursor was closed by accident
TailNextNull(c) ==
    /\ ch[c].lpc = "tailNext"
    /\ db.capped
    /\ ch' = [ch EXCEPT ![c] =
                IF handleReturns(@) THEN [@ EXCEPT !.lpc = "stopped"]
                ELSE [@ EXCEPT !.lpc = "brokenDelay"]]
    /\ UNCHANGED <<db, backend>>

\* mutant: the cursor is opened again whatever options.recreate says
BrokenCursorTimerRestarts(c) ==
    /\ ch[c].lpc = "brokenDelay"
    /\ ch' = [ch EXCEPT ![c] =
                [EmitError(@, "broken", ErrBrokenCursor) EXCEPT !.lpc = "tailNext"]]
    /\ UNCHANGED <<db, backend>>

\* the setTimeout(..., 1000) callback: emit the broken-cursor error, then
\* self.create().listen(latest) when recreate is set.  Channel has no method
\* create (nor listen): the call throws a TypeError out of the timer callback.
BrokenCursorTimer(c) ==
    /\ ch[c].lpc = "brokenDelay"
    /\ ch' = [ch EXCEPT ![c] =
                [EmitError(@, "broken", ErrBrokenCursor)
                    EXCEPT !.lpc = "stopped", !.uncaught = @ \/ ch[c].recreate]]
    /\ UNCHANGED <<db, backend>>

RECURSIVE DispatchAll(_, _, _)
DispatchAll(r, from, to) ==
    IF from > to THEN r ELSE DispatchAll(Dispatch(r, from), from + 1, to)

\* poll(): find({_id: {$gt: cursor._id}}).sort({_id: 1}).toArray() resolves:
\* every document is dispatched, then the next poll is scheduled
PollFetchOk(c) ==
    /\ ch[c].lpc = "pollFetch"
    /\ ch' = [ch EXCEPT ![c] =
                [DispatchAll(@, @.latest + 1, Len(db.docs))
                    EXCEPT !.pollingTimer = TRUE, !.lpc = "pollTimer"]]
    /\ UNCHANGED <<db, backend>>

\* mutant: a failed fetch is reported and no further poll is scheduled
PollFetchErrStops(c) ==
    /\ ch[c].lpc = "pollFetch"
    /\ ch' = [ch EXCEPT ![c] =
                [EmitError(@, "poll", ErrNetwork) EXCEPT !.lpc = "stopped"]]
    /\ UNCHANGED <<db, backend>>

\* mutant: after a failed fetch the cursor starts again from the bootstrap
\* watermark
PollFetchErrRewinds(c) ==
    /\ ch[c].lpc = "pollFetch"
    /\ ch' = [ch EXCEPT ![c] =
                [EmitError(@, "poll", ErrNetwork)
                    EXCEPT !.pollingTimer = TRUE, !.lpc = "pollTimer",
                           !.latest = ch[c].wm0]]
    /\ UNCHANGED <<db, backend>>

\* ... rejects: the error is emitted and the next poll is scheduled
PollFetchErr(c) ==
    /\ ch[c].lpc = "pollFetch"
    /\ ch' = [ch EXCEPT ![c] =
                [EmitError(@, "poll", ErrNetwork)
                    EXCEPT !.pollingTimer = TRUE, !.lpc = "pollTimer"]]
    /\ UNCHANGED <<db, backend>>

\* the poll timer fires
PollTimer(c) ==
    /\ ch[c].lpc = "pollTimer"
    /\ ch' = [ch EXCEPT ![c] = poll(@)]
    /\ UNCHANGED <<db, backend>>

\* ------------------------------------------------------------- public API
\* (close(r) and the subscriptions are defined with the emitter, above)
Close(c) ==
    /\ ~ch[c].closed \/ ch[c].pollingTimer
    /\ ch' = [ch EXCEPT ![c] = close(@)]
    /\ UNCHANGED <<db, backend>>

\* mutant: ready() always waits for the next 'ready'
publishAlwaysWaits(r, event) ==
    [r EXCEPT !.pubs = Append(@, [event |-> event, st |-> "queued",
                                  id |-> 0, cb |-> 0, err |-> NoErr])]
\* publish(event, message, callback): ready() runs the insert now when
\* listening, else on 'ready'
publish(r, event) ==
    [r EXCEPT !.pubs = Append(@, [event |-> event,
                                  st |-> IF r.listening THEN "inflight" ELSE "queued",
                                  id |-> 0, cb |-> 0, err |-> NoErr]),
              !.issued = IF r.listening THEN Append(@, Len(r.pubs) + 1) ELSE @]

\* the application calls publish, at most n times, with an event of `names`
PublishOf(c, n, names) ==
    /\ Len(ch[c].pubs) < n
    /\ \E e \in names : ch' = [ch EXCEPT ![c] = publish(@, e)]
    /\ UNCHANGED <<db, backend>>

Publish(c) == PublishOf(c, MaxPublish, Events)

\* insertOne resolves: callback(null, {_id: result.insertedId})
PublishedOk(r, i, id) ==
    [r EXCEPT !.pubs[i] = [@ EXCEPT !.st = "ok", !.id = id, !.cb = @ + 1]]

\* mutant: the insert error is also emitted on the channel
PublishedErrBroadcast(r, i, err) ==
    EmitError([r EXCEPT !.pubs[i] = [@ EXCEPT !.st = "err", !.err = err,
                                              !.cb = @ + 1]],
              "publish", err)

\* insertOne rejects: callback(err)
PublishedErr(r, i, err) ==
    [r EXCEPT !.pubs[i] = [@ EXCEPT !.st = "err", !.err = err, !.cb = @ + 1]]

PubInsertOk(c) ==
    /\ Len(db.docs) < MaxDocs
    /\ \E i \in DOMAIN ch[c].pubs :
          /\ ch[c].pubs[i].st = "inflight"
          /\ db' = Inserted(db, Doc(ch[c].pubs[i].event, FALSE, c))
          /\ ch' = [ch EXCEPT ![c] = PublishedOk(@, i, Len(db.docs) + 1)]
    /\ UNCHANGED backend

PubInsertErr(c) ==
    /\ \E i \in DOMAIN ch[c].pubs :
          /\ ch[c].pubs[i].st = "inflight"
          /\ ch' = [ch EXCEPT ![c] = PublishedErr(@, i, ErrNetwork)]
    /\ UNCHANGED <<db, backend>>

\* ------------------------------------------------------------- environment
\* another process inserts an envelope into the collection
ExtInsertOf(names) ==
    /\ Len(db.docs) < MaxDocs
    /\ \E e \in names : db' = Inserted(db, Doc(e, FALSE, "ext"))
    /\ UNCHANGED <<backend, ch>>

ExtInsert == ExtInsertOf(Events)

\* another process has created the collection, capped or plain
ExtCreate ==
    /\ ~db.exists
    /\ \E capped \in BOOLEAN :
          /\ capped => backend = "full"
          /\ db' = [db EXCEPT !.exists = TRUE, !.capped = capped]
    /\ UNCHANGED <<backend, ch>>

\* -------------------------------------------------------------------- spec
Next ==
    \/ ExtInsert
    \/ ExtCreate
    \/ \E c \in Chans :
          \/ Connect(c)
          \/ ConnClose(c)
          \/ CreateCappedOk(c)
          \/ CreateCappedErr(c)
          \/ IsCappedDone(c)
          \/ IsCappedErr(c)
          \/ CreatePollingOk(c)
          \/ CreatePollingErr(c)
          \/ TtlIndexOk(c)
          \/ TtlIndexErr(c)
          \/ BootFindOk(c)
          \/ BootFindErr(c)
          \/ BootFindGtOk(c)
          \/ BootFindGtErr(c)
          \/ BootInsertOk(c)
          \/ BootInsertErr(c)
          \/ TailNextDoc(c)
          \/ TailNextErr(c)
          \/ TailNextNull(c)
          \/ BrokenCursorTimer(c)
          \/ PollFetchOk(c)
          \/ PollFetchErr(c)
          \/ PollTimer(c)
          \/ Close(c)
          \/ Publish(c)
          \/ PubInsertOk(c)
          \/ PubInsertErr(c)

Spec == Init /\ [][Next]_vars

\* ----------------------------------------------------------- fair schedule
\* Every store operation a listener has issued is answered and every armed
\* timer fires; a document above the watermark is handed to a live tailable
\* cursor, and a polling fetch that is retried for ever eventually succeeds.
Fairness ==
    \A c \in Chans :
        /\ WF_vars(BootFindOk(c))
        /\ WF_vars(BootFindGtOk(c))
        /\ WF_vars(BootInsertOk(c))
        /\ WF_vars(TailNextDoc(c))
        /\ WF_vars(TailNextErr(c) \/ TailNextDoc(c) \/ TailNextNull(c))
        /\ WF_vars(BrokenCursorTimer(c))
        /\ SF_vars(PollFetchOk(c))
        /\ WF_vars(PollTimer(c))

\* channels opened with the defaults of the fallback scenarios: mode auto,
\* recreate true
AutoInit ==
    /\ Init
    /\ \A c \in Chans : ch[c].mode = "auto" /\ ch[c].recreate

LiveSpec == AutoInit /\ [][Next]_vars /\ Fairness

\* ------------------------------------------------- publishing in a burst
\* The same channel and store, with the application publishing more than
\* once: default recreate, retention off or on.
QueueInit ==
    /\ Init
    /\ \A c \in Chans : ch[c].recreate /\ ch[c].pollTtlSeconds >= 0

QueueNext ==
    \/ ExtInsert
    \/ ExtCreate
    \/ \E c \in Chans :
          \/ Connect(c)
          \/ ConnClose(c)
          \/ CreateCappedOk(c)
          \/ CreateCappedErr(c)
          \/ IsCappedDone(c)
          \/ IsCappedErr(c)
          \/ CreatePollingOk(c)
          \/ CreatePollingErr(c)
          \/ TtlIndexOk(c)
          \/ TtlIndexErr(c)
          \/ BootFindOk(c)
          \/ BootFindErr(c)
          \/ BootFindGtOk(c)
          \/ BootFindGtErr(c)
          \/ BootInsertOk(c)
          \/ BootInsertErr(c)
          \/ TailNextDoc(c)
          \/ TailNextErr(c)
          \/ TailNextNull(c)
          \/ BrokenCursorTimer(c)
          \/ PollFetchOk(c)
          \/ PollFetchErr(c)
          \/ PollTimer(c)
          \/ Close(c)
          \/ PublishOf(c, MaxBurst, Events)
          \/ PubInsertOk(c)
          \/ PubInsertErr(c)

QueueSpec == QueueInit /\ [][QueueNext]_vars

\* ---------------------------------------------------------- subscriptions
\* subscribe(event, callback), with (event, callback) one of `regs`.  The
\* application subscribes as the tests do: right after it has obtained the
\* channel, before the connection is up and before it publishes or closes.
SubscribeOf(c, regs) ==
    /\ ~ch[c].connDb /\ ~ch[c].closed /\ ~ch[c].destroyed /\ ch[c].pubs = <<>>
    /\ Len(ch[c].handles) < MaxSubs
    /\ \E g \in regs : ch' = [ch EXCEPT ![c] = subscribe(@, g.event, g.fn)]
    /\ UNCHANGED <<db, backend>>

\* subscription.unsubscribe(), called by the application on any subscription
\* object it holds, also one it has called before
Unsubscribe(c) ==
    /\ \E k \in DOMAIN ch[c].handles :
          /\ ch[c].handles[k].unsubs < MaxUnsubscribe
          /\ ch' = [ch EXCEPT ![c] = unsubscribe(@, k)]
    /\ UNCHANGED <<db, backend>>

\* the event names the application publishes, and those of other processes'
\* documents (None: a document without an event)
PubNames == {"a", "message"}
ExtNames == {"a", None}

\* a channel of either transport on a store that answers every operation
SubInit ==
    /\ db = [exists |-> FALSE, capped |-> FALSE, docs |-> <<>>, ttl |-> 0]
    /\ backend = "full"
    /\ ch \in [Chans -> {Construct([mode |-> m, pollTtlSeconds |-> 0,
                                     recreate |-> TRUE]) :
                            m \in {"capped", "polling"}}]

\* subscriptions whose callbacks return, or unsubscribe themselves
SubRegs ==
    [event : SubNames, fn : {"plain"}] \cup {[event |-> "a", fn |-> "leaver"]}

SubNext ==
    \/ ExtInsertOf(ExtNames)
    \/ \E c \in Chans :
          \/ Connect(c)
          \/ CreateCappedOk(c)
          \/ CreatePollingOk(c)
          \/ BootFindOk(c)
          \/ BootFindGtOk(c)
          \/ BootInsertOk(c)
          \/ TailNextDoc(c)
          \/ PollFetchOk(c)
          \/ PollTimer(c)
          \/ SubscribeOf(c, SubRegs)
          \/ Unsubscribe(c)
          \/ PublishOf(c, MaxPublish, PubNames)
          \/ PubInsertOk(c)

SubSpec == SubInit /\ [][SubNext]_vars

\* subscriptions whose callbacks return
RouteRegs == [event : SubNames, fn : {"plain"}]

\* the same channel and store with those subscriptions, none of which is
\* unsubscribed
RouteNext ==
    \/ ExtInsertOf(ExtNames)
    \/ \E c \in Chans :
          \/ Connect(c)
          \/ CreateCappedOk(c)
          \/ CreatePollingOk(c)
          \/ BootFindOk(c)
          \/ BootFindGtOk(c)
          \/ BootInsertOk(c)
          \/ TailNextDoc(c)
          \/ PollFetchOk(c)
          \/ PollTimer(c)
          \/ SubscribeOf(c, RouteRegs)
          \/ PublishOf(c, MaxPublish, PubNames)
          \/ PubInsertOk(c)

RouteSpec == SubInit /\ [][RouteNext]_vars

\* subscriptions whose callbacks return, close the channel or close the client
CloseRegs == [event : {"a"}, fn : {"plain", "closer", "ender"}]

\* the application closes the channel at any time; the client is closed from
\* a subscriber callback, as the test does
CloseNext ==
    \/ ExtInsertOf(ExtNames)
    \/ \E c \in Chans :
          \/ Connect(c)
          \/ CreateCappedOk(c)
          \/ CreatePollingOk(c)
          \/ BootFindOk(c)
          \/ BootFindGtOk(c)
          \/ BootInsertOk(c)
          \/ TailNextDoc(c)
          \/ PollFetchOk(c)
          \/ PollTimer(c)
          \/ Close(c)
          \/ SubscribeOf(c, CloseRegs)
          \/ PublishOf(c, MaxPublish, Events)
          \/ PubInsertOk(c)

CloseSpec == SubInit /\ [][CloseNext]_vars

\* ----------------------------------------------- two channels, one collection
\* Two clients each open a channel of the same name, in mode auto or capped,
\* on a store that supports capped collections; each channel may have
\* 'document' subscribers.
Pair == {"c1", "c2"}

PairInit ==
    /\ db = [exists |-> FALSE, capped |-> FALSE, docs |-> <<>>, ttl |-> 0]
    /\ backend = "full"
    /\ ch \in [Pair -> {Construct([mode |-> m, pollTtlSeconds |-> 0,
                                    recreate |-> TRUE]) :
                           m \in {"auto", "capped"}}]

DocRegs == {[event |-> "document", fn |-> "plain"]}

PairNext ==
    \E c \in Pair :
        \/ Connect(c)
        \/ CreateCappedOk(c)
        \/ CreateCappedErr(c)
        \/ IsCappedDone(c)
        \/ BootFindOk(c)
        \/ BootFindGtOk(c)
        \/ BootInsertOk(c)
        \/ TailNextDoc(c)
        \/ SubscribeOf(c, DocRegs)
        \/ PublishOf(c, MaxPublish, Events)
        \/ PubInsertOk(c)

PairSpec == PairInit /\ [][PairNext]_vars

\* ------------------------------------------------ listeners side by side
\* Two clients each open a channel on the same collection, in any mode, on a
\* store that supports capped collections and answers every operation.  The
\* one refusal left is the store's own: a tailable cursor on a collection
\* that is not capped.
FanInit ==
    /\ db = [exists |-> FALSE, capped |-> FALSE, docs |-> <<>>, ttl |-> 0]
    /\ backend = "full"
    /\ ch \in [Pair -> {Construct([mode |-> m, pollTtlSeconds |-> 0,
                                    recreate |-> TRUE]) : m \in Modes}]

\* createCollection rejects with 'already exists', and with nothing else
CreateCappedExists(c) == db.exists /\ CreateCappedErr(c)

CreatePollingExists(c) == db.exists /\ CreatePollingErr(c)

\* cursor.next() of a tailable cursor on a plain collection rejects
TailNextRefused(c) == ~db.capped /\ TailNextErr(c)

FanNext ==
    \E c \in Pair :
        \/ Connect(c)
        \/ CreateCappedOk(c)
        \/ CreateCappedExists(c)
        \/ IsCappedDone(c)
        \/ CreatePollingOk(c)
        \/ CreatePollingExists(c)
        \/ BootFindOk(c)
        \/ BootFindGtOk(c)
        \/ BootInsertOk(c)
        \/ TailNextDoc(c)
        \/ TailNextRefused(c)
        \/ BrokenCursorTimer(c)
        \/ PollFetchOk(c)
        \/ PollTimer(c)
        \/ PublishOf(c, MaxPublish, Events)
        \/ PubInsertOk(c)

\* every operation issued is answered and every timer fires
FanFairness ==
    \A c \in Pair :
        /\ WF_vars(Connect(c))
        /\ WF_vars(CreateCappedOk(c))
        /\ WF_vars(CreateCappedExists(c))
        /\ WF_vars(IsCappedDone(c))
        /\ WF_vars(CreatePollingOk(c))
        /\ WF_vars(CreatePollingExists(c))
        /\ WF_vars(BootFindOk(c))
        /\ WF_vars(BootFindGtOk(c))
        /\ WF_vars(BootInsertOk(c))
        /\ WF_vars(TailNextDoc(c))
        /\ WF_vars(TailNextRefused(c))
        /\ WF_vars(BrokenCursorTimer(c))
        /\ WF_vars(PollFetchOk(c))
        /\ WF_vars(PollTimer(c))
        /\ WF_vars(PubInsertOk(c))

FanSpec == FanInit /\ [][FanNext]_vars /\ FanFairness
\* ------------------------------------------ subscriptions and fetch errors
\* The channel with subscriptions whose callbacks return, on a store whose
\* polling fetch may fail.
OrderNext ==
    \/ ExtInsertOf(ExtNames)
    \/ \E c \in Chans :
          \/ Connect(c)
          \/ CreateCappedOk(c)
          \/ CreatePollingOk(c)
          \/ BootFindOk(c)
          \/ BootFindGtOk(c)
          \/ BootInsertOk(c)
          \/ TailNextDoc(c)
          \/ PollFetchOk(c)
          \/ PollFetchErr(c)
          \/ PollTimer(c)
          \/ SubscribeOf(c, RouteRegs)
          \/ PublishOf(c, MaxPublish, PubNames)
          \/ PubInsertOk(c)

OrderSpec == SubInit /\ [][OrderNext]_vars
\* ------------------------------------------------------ option resolution
\* A JavaScript value of the options object: its typeof and, by type, its
\* number, string or boolean.
Num(n) == [t |-> "number", n |-> n, s |-> "", b |-> FALSE]
Str(s) == [t |-> "string", n |-> 0, s |-> s, b |-> FALSE]
Bool(b) == [t |-> "boolean", n |-> 0, s |-> "", b |-> b]
Undefined == [t |-> "undefined", n |-> 0, s |-> "", b |-> FALSE]

DefaultRetryInterval == 200
DefaultPollInterval == 1000

\* the options objects the application passes to connection.channel()
RawOptions ==
    [ mode : {Undefined, Str("auto"), Str("capped"), Str("polling"),
              Str("tailable"), Num(1)},
      retryInterval : {Undefined, Num(50), Str("50")},
      pollInterval : {Undefined, Num(0), Num(20), Str("20")},
      pollTtlSeconds : {Undefined, Num(60), Num(-1), Str("60")},
      recreate : {Undefined, Bool(FALSE), Bool(TRUE), Str("false"), Num(0)} ]

\* mutant: a number is taken only when it is truthy (options.x || default)
thisOptionsTruthy(options) ==
    [ recreate |-> IF options.recreate.t = "boolean" THEN options.recreate.b
                   ELSE TRUE,
      retryInterval |-> IF options.retryInterval.t = "number"
                           /\ options.retryInterval.n # 0
                        THEN options.retryInterval.n ELSE DefaultRetryInterval,
      pollInterval |-> IF options.pollInterval.t = "number"
                          /\ options.pollInterval.n # 0
                       THEN options.pollInterval.n ELSE DefaultPollInterval,
      pollTtlSeconds |-> IF options.pollTtlSeconds.t = "number"
                         THEN options.pollTtlSeconds.n ELSE 0,
      mode |-> IF options.mode.t = "string"
                  /\ options.mode.s \in {"auto", "capped", "polling"}
               THEN options.mode.s ELSE "auto" ]

\* this.options of the constructor
thisOptions(options) ==
    [ recreate |-> IF options.recreate.t = "boolean" THEN options.recreate.b
                   ELSE TRUE,
      retryInterval |-> IF options.retryInterval.t = "number"
                        THEN options.retryInterval.n ELSE DefaultRetryInterval,
      pollInterval |-> IF options.pollInterval.t = "number"
                       THEN options.pollInterval.n ELSE DefaultPollInterval,
      pollTtlSeconds |-> IF options.pollTtlSeconds.t = "number"
                         THEN options.pollTtlSeconds.n ELSE 0,
      mode |-> IF options.mode.t = "string"
                  /\ options.mode.s \in {"auto", "capped", "polling"}
               THEN options.mode.s ELSE "auto" ]

\* new Channel(connection, name, options); the channel keeps what it was
\* given (raw) and this.options
NewChannel(options) ==
    [raw |-> options, options |-> thisOptions(options)]
        @@ Construct(thisOptions(options))

ConfigInit ==
    /\ db = [exists |-> FALSE, capped |-> FALSE, docs |-> <<>>, ttl |-> 0]
    /\ backend = "full"
    /\ ch \in [Chans -> {NewChannel(options) : options \in RawOptions}]

\* the initialization of the channel on a store that answers every operation
\* and may hold the collection already
ConfigNext ==
    \/ ExtCreate
    \/ \E c \in Chans :
          \/ Connect(c)
          \/ CreateCappedOk(c)
          \/ CreateCappedExists(c)
          \/ IsCappedDone(c)
          \/ CreatePollingOk(c)
          \/ CreatePollingExists(c)
          \/ TtlIndexOk(c)
          \/ BootFindOk(c)
          \/ BootInsertOk(c)
          \/ TailNextRefused(c)
          \/ BrokenCursorTimer(c)
          \/ PollFetchOk(c)
          \/ PollTimer(c)

ConfigSpec == ConfigInit /\ [][ConfigNext]_vars
\* --------------------------------------------------------- the connection
\* mutant: the getter looks at the handle and the client before destroyed
stateHandleFirst(r) ==
    IF (r.connDb /\ ~r.client) \/ (r.client /\ r.topology) THEN "connected"
    ELSE IF r.destroyed THEN "destroyed"
    ELSE "connecting"

\* get state(): destroyed, else connected when there is a handle and no
\* client or the client's topology says isConnected(), else connecting
state(r) ==
    IF r.destroyed THEN "destroyed"
    ELSE IF (r.connDb /\ ~r.client) \/ (r.client /\ r.topology) THEN "connected"
    ELSE "connecting"

\* new Connection(uri) or new Connection(db), and the channel the application
\* obtains from it at once.  client: self.client is set; topology: what
\* client.topology.isConnected() answers; the other fields record the calls
\* of close() and what the getter answered when 'connect' was emitted and
\* when the callback of close() ran.
NewConnection(given, o) ==
    LET r == [given |-> given, client |-> FALSE, topology |-> FALSE,
              connects |-> 0, connErr |-> FALSE, closes |-> 0,
              closeCb |-> "none", atConnect |-> None, atCallback |-> None]
             @@ Construct(o)
    IN  IF given = "db" THEN onConnect(r) ELSE r

ConnInit ==
    /\ db = [exists |-> FALSE, capped |-> FALSE, docs |-> <<>>, ttl |-> 0]
    /\ backend = "full"
    /\ ch \in [Chans -> {NewConnection(given, [mode |-> m, pollTtlSeconds |-> 0,
                                               recreate |-> TRUE]) :
                            given \in {"uri", "db"}, m \in {"capped", "polling"}}]

\* the callback of MongoClient.connect with a client: client and db are set
\* and 'connect' is emitted
ClientConnected(c) ==
    /\ ch[c].given = "uri" /\ ~ch[c].connDb /\ ~ch[c].connErr
    /\ LET r == [onConnect(ch[c]) EXCEPT !.client = TRUE, !.topology = TRUE,
                                         !.connects = @ + 1]
       IN  ch' = [ch EXCEPT ![c] = [r EXCEPT !.atConnect = state(r)]]
    /\ UNCHANGED <<db, backend>>

\* ... with an error: 'error' is emitted on the connection
ClientConnectFailed(c) ==
    /\ ch[c].given = "uri" /\ ~ch[c].connDb /\ ~ch[c].connErr
    /\ ch' = [ch EXCEPT ![c].connErr = TRUE]
    /\ UNCHANGED <<db, backend>>

\* the driver loses or regains its servers
TopologyChange(c) ==
    /\ ch[c].client /\ ch[c].closeCb # "called"
    /\ ch' = [ch EXCEPT ![c].topology = ~@]
    /\ UNCHANGED <<db, backend>>

\* close(callback): destroyed = true, then this.client?.close(callback)
CloseConnection(c) ==
    /\ ch[c].closes = 0
    /\ ch' = [ch EXCEPT ![c] =
                [@ EXCEPT !.destroyed = TRUE, !.closes = @ + 1,
                          !.closeCb = IF ch[c].client THEN "pending" ELSE "dropped"]]
    /\ UNCHANGED <<db, backend>>

\* the driver has closed the client and invokes the callback
ClientClosed(c) ==
    /\ ch[c].closeCb = "pending"
    /\ LET r == [ch[c] EXCEPT !.topology = FALSE, !.closeCb = "called"]
       IN  ch' = [ch EXCEPT ![c] = [r EXCEPT !.atCallback = state(r)]]
    /\ UNCHANGED <<db, backend>>

ConnNext ==
    \/ ExtInsert
    \/ \E c \in Chans :
          \/ ClientConnected(c)
          \/ ClientConnectFailed(c)
          \/ TopologyChange(c)
          \/ CloseConnection(c)
          \/ ClientClosed(c)
          \/ CreateCappedOk(c)
          \/ CreatePollingOk(c)
          \/ BootFindOk(c)
          \/ BootFindGtOk(c)
          \/ BootInsertOk(c)
          \/ TailNextDoc(c)
          \/ PollFetchOk(c)
          \/ PollTimer(c)

ConnSpec == ConnInit /\ [][ConnNext]_vars
\* ------------------------------------------------------ channel registry
\* connection.channel(name, options): the first argument is absent, an
\* options object, or a string
Object == [t |-> "object", n |-> 0, s |-> "", b |-> FALSE]

NameArgs == {Undefined, Object, Str("mubsub"), Str("x")}

\* the property key of this.channels the call looks up: an object in the
\* place of the name is replaced by 'mubsub', undefined becomes the key
\* 'undefined'
KeyOf(name) ==
    CASE name.t = "object" -> "mubsub"
      [] name.t = "undefined" -> "undefined"
      [] OTHER -> name.s

\* this.name of the channel created: name || 'mubsub'
NameOf(name) ==
    CASE name.t = "object" -> "mubsub"
      [] name.t = "undefined" -> "mubsub"
      [] name.s = "" -> "mubsub"
      [] OTHER -> name.s

\* new Channel(this, name, options) on a connection that has its handle
\* (has) or not
NewInstance(name, mode, has) ==
    LET r == [key |-> KeyOf(name), name |-> NameOf(name), returned |-> 1]
                @@ Construct([mode |-> mode, pollTtlSeconds |-> 0,
                              recreate |-> TRUE])
    IN  IF has THEN onConnect(r) ELSE r

\* this.channels[key]: the instance created last for the key
Registered(key) ==
    LET R == {i \in DOMAIN ch : ch[i].key = key}
    IN  IF R = {} THEN 0 ELSE Max(R)

RegModes == {"auto", "polling"}

\* the application obtains its first channel right after it has created the
\* client; ch is the sequence of the Channel instances in creation order
RegInit ==
    /\ db = [exists |-> FALSE, capped |-> FALSE, docs |-> <<>>, ttl |-> 0]
    /\ backend = "full"
    /\ \E name \in NameArgs, mode \in RegModes :
          ch = <<NewInstance(name, mode, FALSE)>>

\* connection.channel(name, options)
GetChannel ==
    /\ \E name \in NameArgs, mode \in RegModes :
          LET i == Registered(KeyOf(name)) IN
          IF i = 0 \/ ch[i].closed
          THEN /\ Len(ch) < MaxChannels
               /\ ch' = Append(ch, NewInstance(name, mode, ch[1].connDb))
          ELSE /\ ch[i].returned < MaxChannels
               /\ ch' = [ch EXCEPT ![i].returned = @ + 1]
    /\ UNCHANGED <<db, backend>>

\* 'connect' is emitted on the connection: every channel waiting on it goes on
RegConnect ==
    /\ ~ch[1].connDb
    /\ ch' = [i \in DOMAIN ch |-> onConnect(ch[i])]
    /\ UNCHANGED <<db, backend>>

\* the channels of the collection 'mubsub', the one collection of the store
OnMubsub == {i \in DOMAIN ch : ch[i].name = "mubsub"}

RegNext ==
    \/ GetChannel
    \/ RegConnect
    \/ \E c \in DOMAIN ch : Close(c)
    \/ \E c \in OnMubsub :
          \/ CreateCappedOk(c)
          \/ CreateCappedExists(c)
          \/ IsCappedDone(c)
          \/ CreatePollingOk(c)
          \/ CreatePollingExists(c)
          \/ BootFindOk(c)
          \/ BootInsertOk(c)

RegSpec == RegInit /\ [][RegNext]_vars
\* ------------------------------------- envelopes named like notifications
\* The channel in every mode on either backend, with envelopes whose event
\* names are the names of the channel's own notifications, published by the
\* channel and by other processes.
LifeNames == {"ready", "collection", "error"}

NameInit ==
    /\ Init
    /\ \A c \in Chans : ch[c].recreate /\ ch[c].pollTtlSeconds = 0

NameNext ==
    \/ ExtInsertOf(LifeNames)
    \/ ExtCreate
    \/ \E c \in Chans :
          \/ Connect(c)
          \/ CreateCappedOk(c)
          \/ CreateCappedErr(c)
          \/ IsCappedDone(c)
          \/ CreatePollingOk(c)
          \/ CreatePollingErr(c)
          \/ BootFindOk(c)
          \/ BootFindErr(c)
          \/ BootFindGtOk(c)
          \/ BootInsertOk(c)
          \/ BootInsertErr(c)
          \/ TailNextDoc(c)
          \/ PollFetchOk(c)
          \/ PollTimer(c)
          \/ PublishOf(c, MaxPublish, LifeNames)
          \/ PubInsertOk(c)

NameSpec == NameInit /\ [][NameNext]_vars
\* ------------------------------------------- the operations in flight
\* The same channel, recording how many operations and timers it has
\* outstanding instead of one position per flow: every continuation takes
\* the operation it completes out of the multiset and adds the ones it
\* issues.  once() listeners are counted the same way.  The retention index
\* is off (pollTtlSeconds 0) and the application has no subscriber.
OpKinds ==
    {"createCapped", "isCapped", "createPolling", "findTail", "findPoll",
     "findGtTail", "findGtPoll", "insertDummy", "cursorNext", "brokenTimer",
     "fetch", "pollTimer"}

Issue(r, op) == [r EXCEPT !.ops[op] = @ + 1]

Done(r, op) == [r EXCEPT !.ops[op] = @ - 1]

\* new Channel(...) on a connection without a handle: the create function is
\* added with connection.once('connect'), the listener's onCollection with
\* this.once('collection')
NewLoops(mode) ==
    [ mode |-> mode, allowFallback |-> (mode = "auto"),
      connDb |-> FALSE, destroyed |-> FALSE, closed |-> FALSE,
      collection |-> FALSE, timer |-> "none", readies |-> 0,
      waitConnect |-> [f \in {"create", "openCollection"} |->
                          IF (f = "openCollection") <=> (mode = "polling")
                          THEN 1 ELSE 0],
      waitCollection |-> [k \in {"tail", "poll"} |->
                            IF (k = "poll") <=> (mode = "polling") THEN 1 ELSE 0],
      ops |-> [op \in OpKinds |-> 0] ]

LoopInit ==
    /\ db = [exists |-> FALSE, capped |-> FALSE, docs |-> <<>>, ttl |-> 0]
    /\ backend \in {"full", "nocapped"}
    /\ ch \in [Chans -> {NewLoops(mode) : mode \in Modes}]

\* the number of operations `op` the channel has outstanding
Pending(c, op) == ch[c].ops[op]

\* 'connect' is emitted: every function added with once('connect') runs
LoopConnect(c) ==
    /\ ~ch[c].connDb
    /\ ch' = [ch EXCEPT ![c] =
                [@ EXCEPT !.connDb = TRUE,
                          !.waitConnect = [f \in DOMAIN @ |-> 0],
                          !.ops = [@ EXCEPT
                                     !["createCapped"] =
                                         @ + ch[c].waitConnect["create"],
                                     !["createPolling"] =
                                         @ + ch[c].waitConnect["openCollection"]]]]
    /\ UNCHANGED <<db, backend>>

\* mutant: the listener is added with on('collection') and stays registered
onCollectionStays(r) ==
    [r EXCEPT !.ops = [@ EXCEPT !["findTail"] = @ + r.waitCollection["tail"],
                                !["findPoll"] = @ + r.waitCollection["poll"]]]

\* self.emit('collection', ...): every onCollection added with
\* once('collection') is removed and runs, issuing its newest-document read
onCollection(r) ==
    [r EXCEPT !.waitCollection = [k \in DOMAIN @ |-> 0],
              !.ops = [@ EXCEPT !["findTail"] = @ + r.waitCollection["tail"],
                                !["findPoll"] = @ + r.waitCollection["poll"]]]

\* the continuations that set self.collection and emit 'collection'
opened(r) == onCollection([r EXCEPT !.collection = TRUE])

\* createPolling(): the connection has its handle, openCollection() runs
openCollection(r) == Issue(r, "createPolling")

LoopCreateCappedOk(c) ==
    /\ Pending(c, "createCapped") > 0
    /\ ~db.exists /\ backend = "full"
    /\ db' = [db EXCEPT !.exists = TRUE, !.capped = TRUE]
    /\ ch' = [ch EXCEPT ![c] = opened(Done(@, "createCapped"))]
    /\ UNCHANGED backend

LoopCreateCappedErr(c) ==
    /\ Pending(c, "createCapped") > 0
    /\ \E err \in CreateCappedErrors :
          LET r == Done(ch[c], "createCapped") IN
          ch' = [ch EXCEPT ![c] =
                    IF collectionExistsError(err) THEN Issue(r, "isCapped")
                    ELSE IF r.mode = "auto" /\ isCappedUnsupportedError(err)
                         THEN openCollection(r)
                         ELSE r]
    /\ UNCHANGED <<db, backend>>

LoopIsCappedDone(c) ==
    /\ Pending(c, "isCapped") > 0
    /\ db.exists
    /\ LET r == Done(ch[c], "isCapped") IN
       ch' = [ch EXCEPT ![c] =
                IF ~db.capped /\ r.mode # "auto" THEN r ELSE opened(r)]
    /\ UNCHANGED <<db, backend>>

LoopCreatePollingOk(c) ==
    /\ Pending(c, "createPolling") > 0
    /\ ~db.exists
    /\ db' = [db EXCEPT !.exists = TRUE, !.capped = FALSE]
    /\ ch' = [ch EXCEPT ![c] = opened(Done(@, "createPolling"))]
    /\ UNCHANGED backend

LoopCreatePollingErr(c) ==
    /\ Pending(c, "createPolling") > 0
    /\ \E err \in CreatePollingErrors :
          LET r == Done(ch[c], "createPolling") IN
          ch' = [ch EXCEPT ![c] =
                    IF collectionExistsError(err) THEN opened(r) ELSE r]
    /\ UNCHANGED <<db, backend>>
\* poll(): nothing when closed or destroyed, else the find is issued
pollIssues(r) == IF r.closed \/ r.destroyed THEN r ELSE Issue(r, "fetch")

\* self.pollingTimer = setTimeout(poll, pollInterval)
armPollTimer(r) == [Issue(r, "pollTimer") EXCEPT !.timer = "pending"]

\* the function handle(true, callback, recovery) returns, for the listener
\* kind (tail or poll) whose bootstrap ended with err or with a document:
\* the tailable callback opens the cursor and calls more(), the polling one
\* calls poll(); recovery nulls the collection, calls createPolling() and
\* startPollingListener(), whose latest() waits for 'collection'
bootstrapped(r, kind, err) ==
    IF handleReturns(r) THEN r
    ELSE IF err # NoErr
         THEN IF kind = "tail" /\ recovery(r, err)
              THEN [openCollection(r) EXCEPT !.collection = FALSE,
                                             !.waitCollection["poll"] = @ + 1]
              ELSE r
         ELSE IF kind = "tail"
              THEN [Issue(r, "cursorNext") EXCEPT !.readies = @ + 1]
              ELSE pollIssues([r EXCEPT !.readies = @ + 1])

ListenerKinds == {"tail", "poll"}

FindOp(kind) == IF kind = "tail" THEN "findTail" ELSE "findPoll"

FindGtOp(kind) == IF kind = "tail" THEN "findGtTail" ELSE "findGtPoll"

\* latest(): the newest-document read resolves or rejects
LoopFind(c) ==
    /\ \E kind \in ListenerKinds :
          /\ Pending(c, FindOp(kind)) > 0
          /\ LET r == Done(ch[c], FindOp(kind)) IN
             \/ ch' = [ch EXCEPT ![c] =
                         IF Len(db.docs) > 0 THEN Issue(r, FindGtOp(kind))
                         ELSE IF kind = "poll" THEN bootstrapped(r, kind, NoErr)
                         ELSE Issue(r, "insertDummy")]
             \/ \E err \in BootErrors :
                   ch' = [ch EXCEPT ![c] = bootstrapped(r, kind, err)]
    /\ UNCHANGED <<db, backend>>

\* latest(): the read of greater identifiers resolves or rejects
LoopFindGt(c) ==
    /\ \E kind \in ListenerKinds :
          /\ Pending(c, FindGtOp(kind)) > 0
          /\ ch' = [ch EXCEPT ![c] =
                      bootstrapped(Done(@, FindGtOp(kind)), kind, NoErr)]
    /\ UNCHANGED <<db, backend>>

LoopInsertOk(c) ==
    /\ Pending(c, "insertDummy") > 0
    /\ Len(db.docs) < MaxDocs
    /\ db' = Inserted(db, Doc(None, TRUE, c))
    /\ ch' = [ch EXCEPT ![c] = bootstrapped(Done(@, "insertDummy"), "tail", NoErr)]
    /\ UNCHANGED backend

LoopInsertErr(c) ==
    /\ Pending(c, "insertDummy") > 0
    /\ \E err \in BootErrors :
          ch' = [ch EXCEPT ![c] = bootstrapped(Done(@, "insertDummy"), "tail", err)]
    /\ UNCHANGED <<db, backend>>

\* cursor.next() resolves with a document: next() dispatches it and
\* process.nextTick(more) issues the next read
LoopNextDoc(c) ==
    /\ Pending(c, "cursorNext") > 0
    /\ db.capped /\ Len(db.docs) > 0
    /\ LET r == Done(ch[c], "cursorNext") IN
       ch' = [ch EXCEPT ![c] =
                IF handleReturns(r) THEN r ELSE Issue(r, "cursorNext")]
    /\ UNCHANGED <<db, backend>>

\* cursor.next() resolves with no document, or rejects: the broken-cursor
\* timer is armed
LoopNextEnds(c) ==
    /\ Pending(c, "cursorNext") > 0
    /\ LET r == Done(ch[c], "cursorNext") IN
       ch' = [ch EXCEPT ![c] =
                IF handleReturns(r) THEN r ELSE Issue(r, "brokenTimer")]
    /\ UNCHANGED <<db, backend>>

\* the broken-cursor timer fires: the error is emitted, nothing is issued
LoopBrokenTimer(c) ==
    /\ Pending(c, "brokenTimer") > 0
    /\ ch' = [ch EXCEPT ![c] = Done(@, "brokenTimer")]
    /\ UNCHANGED <<db, backend>>

\* the polling find resolves or rejects: the next poll is scheduled
LoopFetchEnds(c) ==
    /\ Pending(c, "fetch") > 0
    /\ ch' = [ch EXCEPT ![c] = armPollTimer(Done(@, "fetch"))]
    /\ UNCHANGED <<db, backend>>

LoopPollTimer(c) ==
    /\ Pending(c, "pollTimer") > 0
    /\ ch' = [ch EXCEPT ![c] =
                pollIssues([Done(@, "pollTimer") EXCEPT !.timer = "fired"])]
    /\ UNCHANGED <<db, backend>>

\* close(): closed = true; clearTimeout(this.pollingTimer) cancels the timer
\* when it has not fired
LoopClose(c) ==
    /\ ~ch[c].closed \/ ch[c].timer # "none"
    /\ ch' = [ch EXCEPT ![c] =
                [(IF @.timer = "pending" THEN Done(@, "pollTimer") ELSE @)
                    EXCEPT !.closed = TRUE, !.timer = "none"]]
    /\ UNCHANGED <<db, backend>>

LoopConnClose(c) ==
    /\ ~ch[c].destroyed
    /\ ch' = [ch EXCEPT ![c].destroyed = TRUE]
    /\ UNCHANGED <<db, backend>>

LoopNext ==
    \/ ExtInsert
    \/ ExtCreate
    \/ \E c \in Chans :
          \/ LoopConnect(c)
          \/ LoopConnClose(c)
          \/ LoopCreateCappedOk(c)
          \/ LoopCreateCappedErr(c)
          \/ LoopIsCappedDone(c)
          \/ LoopCreatePollingOk(c)
          \/ LoopCreatePollingErr(c)
          \/ LoopFind(c)
          \/ LoopFindGt(c)
          \/ LoopInsertOk(c)
          \/ LoopInsertErr(c)
          \/ LoopNextDoc(c)
          \/ LoopNextEnds(c)
          \/ LoopBrokenTimer(c)
          \/ LoopFetchEnds(c)
          \/ LoopPollTimer(c)
          \/ LoopClose(c)

LoopSpec == LoopInit /\ [][LoopNext]_vars
\* ------------------------------------------------------------------ claims
Ids == 1..(MaxDocs + 1)

\* the identifiers of the envelopes channel c has published successfully
Published(c) ==
    {ch[c].pubs[k].id : k \in {j \in DOMAIN ch[c].pubs : ch[c].pubs[j].st = "ok"}}

DispatchedIds(c) == {ch[c].dispatched[k] : k \in DOMAIN ch[c].dispatched}

Stopped(c) == ch[c].closed \/ ch[c].destroyed

C2_AtLeastOnce ==
    \A c \in Chans : \A i \in Ids :
        [](i \in Published(c) => <>(i \in DispatchedIds(c) \/ Stopped(c)))

\* C3  Fallback correctness: in mode auto on a collection that exists and is
\* not capped, an envelope the channel published is eventually dispatched,
\* unless the channel or its connection is closed.
C3_FallbackDelivers ==
    \A c \in Chans : \A i \in Ids :
        []((ch[c].via = "existingPlain" /\ i \in Published(c))
              => <>(i \in DispatchedIds(c) \/ Stopped(c)))

\* C4  Explicit-mode strictness: in mode capped, once the existing collection
\* was found not capped, an error saying so has been emitted, and the channel
\* has no collection, no transport, no polling listener and is not ready.
C4_CappedStrict ==
    \A c \in Chans :
        (ch[c].mode = "capped" /\ ch[c].via = "existingPlain") =>
            /\ \E e \in ch[c].errors : e.at = "create" /\ SaysNotCapped(e.err)
            /\ ch[c].transport = None
            /\ ~ch[c].collection
            /\ ch[c].lkind = "tail" /\ ch[c].lpc = "waitColl"
            /\ ~ch[c].listening /\ ch[c].readies = 0

C4_Witness ==
    \E c \in Chans : ch[c].mode = "capped" /\ ch[c].via = "existingPlain"

\* C5  In mode auto on a backend without capped collections, a channel that is
\* publish-ready runs the polling listener.
C5_PollingListenerWhenUnsupported ==
    \A c \in Chans :
        (ch[c].mode = "auto" /\ backend = "nocapped" /\ ch[c].listening)
            => ch[c].lkind = "poll"

\* C6  A creation error that is not 'already exists' and, in mode auto, not
\* capability-unsupported (in mode capped: any such error) is emitted as it
\* is, and the channel gets no collection, no transport and no readiness.
FatalCreateError(c) ==
    /\ ch[c].cappedErr # NoErr
    /\ ~collectionExistsError(ch[c].cappedErr)
    /\ \/ ch[c].mode = "capped"
       \/ ch[c].mode = "auto" /\ ~isCappedUnsupportedError(ch[c].cappedErr)

C6_FatalCreateError ==
    \A c \in Chans :
        FatalCreateError(c) =>
            /\ [at |-> "create", err |-> ch[c].cappedErr] \in ch[c].errors
            /\ ch[c].transport = None /\ ch[c].lkind = "tail"
            /\ ~ch[c].collection
            /\ ~ch[c].listening /\ ch[c].readies = 0

\* mode capped, and the creation error is a capability-unsupported one
C6_Witness ==
    \E c \in Chans :
        /\ FatalCreateError(c)
        /\ ch[c].mode = "capped"
        /\ isCappedUnsupportedError(ch[c].cappedErr)

\* C7  Retention with T > 0: a channel that is publish-ready on the polling
\* transport has the TTL index with expiry T.
C7_RetentionIndex ==
    \A c \in Chans :
        (ch[c].pollTtlSeconds > 0 /\ ch[c].listening /\ ch[c].transport = "polling")
            => db.ttl = ch[c].pollTtlSeconds

\* C8  Retention disabled: a channel whose pollTtlSeconds is zero or negative
\* never issues createIndex, and when no channel has a positive value the
\* collection has no TTL index.
C8_RetentionDisabled ==
    /\ \A c \in Chans :
          ch[c].pollTtlSeconds <= 0 =>
              /\ ch[c].indexOps = 0
              /\ ch[c].cpc # "ttlIndex"
              /\ \A e \in ch[c].errors : e.at # "ttl"
    /\ (\A c \in Chans : ch[c].pollTtlSeconds <= 0) => db.ttl = 0

\* ready on the polling transport with a negative pollTtlSeconds
C8_Witness ==
    \E c \in Chans :
        /\ ch[c].pollTtlSeconds < 0
        /\ ch[c].transport = "polling" /\ ch[c].lkind = "poll"
        /\ ch[c].listening

\* C9  Retention under mode capped: the channel never issues createIndex and
\* never emits an error of the index step, whatever pollTtlSeconds is.
C9_CappedIgnoresTtl ==
    \A c \in Chans :
        (ch[c].mode = "capped" /\ ch[c].pollTtlSeconds > 0) =>
            /\ ch[c].indexOps = 0
            /\ ch[c].cpc # "ttlIndex"
            /\ \A e \in ch[c].errors : e.at # "ttl"
            /\ (\A d \in Chans : ch[d].mode = "capped") => db.ttl = 0

C9_Witness ==
    \E c \in Chans :
        /\ ch[c].mode = "capped" /\ ch[c].pollTtlSeconds > 0
        /\ ch[c].transport = "capped" /\ ch[c].listening

C11_PublishQueueing ==
    \A c \in DOMAIN ch :
        LET r == ch[c] IN
        /\ ~r.listening =>
              /\ r.issued = <<>>
              /\ \A k \in DOMAIN r.pubs : r.pubs[k].st = "queued"
              /\ \A i \in DOMAIN db.docs : db.docs[i].src = c => db.docs[i].dummy
        /\ r.listening =>
              /\ r.issued = [k \in 1..Len(r.pubs) |-> k]
              /\ \A k \in DOMAIN r.pubs : r.pubs[k].st # "queued"

\* two publishes are waiting on a channel that has its collection and whose
\* second bootstrap read is in flight, while another process's envelope is in
\* the store
C11_Witness ==
    \E c \in DOMAIN ch :
        /\ Len(ch[c].pubs) = 2
        /\ \A k \in 1..2 : ch[c].pubs[k].st = "queued"
        /\ ch[c].collection /\ ch[c].lpc = "findGt"
        /\ Len(db.docs) >= 1

\* a creation or retention-index error has been emitted on the channel
FatalInitFault(c) == \E e \in ch[c].errors : e.at \in {"create", "ttl"}

\* C12  A channel that has reported a fatal initialization fault (a creation
\* error or a retention-index error) has never emitted readiness and is not
\* publish-ready; errors are never withdrawn, so it never becomes ready
\* afterwards: every publish called on it is still waiting, its callback has
\* not run and the store holds no envelope of the channel.
C12_NeverReadyAfterFatal ==
    \A c \in DOMAIN ch :
        FatalInitFault(c) =>
            /\ ch[c].readies = 0 /\ ~ch[c].listening
            /\ ch[c].issued = <<>>
            /\ \A k \in DOMAIN ch[c].pubs :
                  ch[c].pubs[k].st = "queued" /\ ch[c].pubs[k].cb = 0
            /\ \A i \in DOMAIN db.docs : db.docs[i].src = c => db.docs[i].dummy

\* the retention index could not be created, a publish is waiting, and the
\* collection holds another process's envelope
C12_Witness ==
    \E c \in DOMAIN ch :
        /\ \E e \in ch[c].errors : e.at = "ttl"
        /\ Len(ch[c].pubs) >= 1
        /\ Len(db.docs) >= 1

\* the places of the listener that emit an error: the bootstrap reads, the
\* polling fetch, the tailable cursor and the broken-cursor timer
ListenerFaults == {"bootstrap", "poll", "cursor", "broken"}

\* C14  After close() the channel emits no error of its listener: no step
\* taken on a closed channel adds a bootstrap, fetch, cursor or broken-cursor
\* error to the errors the channel has emitted.
C14_NoErrorAfterClose ==
    [][\A c \in DOMAIN ch :
          ch[c].closed =>
              \A e \in ch'[c].errors \ ch[c].errors : e.at \notin ListenerFaults]_vars

\* C13  After close() no subscriber callback is invoked: every callback the
\* channel has called was called for an envelope whose dispatch began while
\* the channel was open, on either transport.
C13_NoDispatchAfterClose ==
    \A c \in DOMAIN ch :
        \A k \in DOMAIN ch[c].calls : ~ch[c].calls[k].closed

\* C15  After the connection has been closed no subscriber callback is
\* invoked: every callback the channel has called was called for an envelope
\* whose dispatch began while the connection was open.
C15_NoDispatchAfterConnClose ==
    \A c \in DOMAIN ch :
        \A k \in DOMAIN ch[c].calls : ~ch[c].calls[k].destroyed

\* the subscription objects for (event, fn) that were never unsubscribed
LiveHandles(c, event, fn) ==
    {k \in DOMAIN ch[c].handles :
        /\ ch[c].handles[k].event = event /\ ch[c].handles[k].fn = fn
        /\ ch[c].handles[k].unsubs = 0}

EmitNames == {"a", "message", "document"}

\* C16  unsubscribe() removes exactly the registration it was returned for
\* and leaves every other one: for every event and callback the channel holds
\* as many registrations as there are subscription objects for them on which
\* unsubscribe() was never called.
C16_UnsubscribeExact ==
    \A c \in DOMAIN ch : \A event \in EmitNames, fn \in Fns :
        Cardinality(Positions(ch[c], event, fn))
            = Cardinality(LiveHandles(c, event, fn))

\* what a step adds to the calls and to the dispatched envelopes of a channel
NewCalls(c) == (Len(ch[c].calls) + 1)..Len(ch'[c].calls)

NewIds(c) ==
    {ch'[c].dispatched[k] :
        k \in (Len(ch[c].dispatched) + 1)..Len(ch'[c].dispatched)}

\* how many times the step calls fn as a subscriber of name with arg, for
\* envelope id
CallsOf(c, fn, name, arg, id) ==
    Cardinality({k \in NewCalls(c) :
                    ch'[c].calls[k] = [fn |-> fn, name |-> name, arg |-> arg,
                                       id |-> id,
                                       closed |-> ch'[c].calls[k].closed,
                                       destroyed |-> ch'[c].calls[k].destroyed]})

\* C17  Dispatch routing, on both transports: in every step the callbacks
\* called are called for the envelopes the step dispatches; a payload goes
\* only to subscribers of the envelope's event name and of 'message', and only
\* when the envelope has an event name; a whole document goes only to
\* subscribers of 'document'; and for each envelope dispatched, every
\* registration of a callback that returns gets the payload once as a
\* subscriber of the event name and once as a subscriber of 'message', and
\* the document once as a subscriber of 'document'.
C17_Routing ==
    [][\A c \in DOMAIN ch :
          /\ \A k \in NewCalls(c) :
                LET call == ch'[c].calls[k] IN
                /\ call.id \in NewIds(c)
                /\ call.arg = "message" =>
                      /\ db.docs[call.id].event # None
                      /\ call.name \in {db.docs[call.id].event, "message"}
                /\ call.arg = "doc" => call.name = "document"
          /\ \A id \in NewIds(c) : \A name \in EmitNames :
                LET event == db.docs[id].event
                    regs == Cardinality(Positions(ch[c], name, "plain"))
                IN  /\ CallsOf(c, "plain", name, "message", id)
                          = IF event = None THEN 0
                            ELSE regs * ((IF name = event THEN 1 ELSE 0)
                                         + (IF name = "message" THEN 1 ELSE 0))
                    /\ CallsOf(c, "plain", name, "doc", id)
                          = IF name = "document" THEN regs ELSE 0]_vars

\* on the polling transport, a 'message' subscriber has been called for an
\* envelope of event a and a 'document' subscriber for a document without an
\* event
C17_Witness ==
    \E c \in DOMAIN ch :
        /\ ch[c].lkind = "poll"
        /\ \E k \in DOMAIN ch[c].calls :
              /\ ch[c].calls[k].name = "message"
              /\ db.docs[ch[c].calls[k].id].event = "a"
        /\ \E k \in DOMAIN ch[c].calls :
              /\ ch[c].calls[k].name = "document"
              /\ db.docs[ch[c].calls[k].id].event = None

\* C18  A subscription created without an event name is called once for
\* every published envelope the listener dispatches, whatever its event name.
C18_WildcardOnce ==
    [][\A c \in DOMAIN ch : \A id \in NewIds(c) :
          db.docs[id].event # None =>
              CallsOf(c, "plain", "message", "message", id)
                  = Cardinality(Positions(ch[c], "message", "plain"))]_vars

\* C19  An anchor document is never dispatched to a subscriber: no callback
\* of any channel has been called for a document inserted by a bootstrap.
C19_AnchorNeverDispatched ==
    \A c \in DOMAIN ch :
        \A k \in DOMAIN ch[c].calls : ~db.docs[ch[c].calls[k].id].dummy

\* C20  Creation race: a channel in mode auto or capped that the store has
\* answered with nothing but 'created' or 'already exists' reports no creation
\* error, and once its creation has ended it has the collection and uses the
\* capped transport with the tailable listener.
C20_BenignRace ==
    \A c \in DOMAIN ch :
        (ch[c].mode \in {"auto", "capped"} /\ ch[c].cappedErr # ErrNetwork) =>
            /\ \A e \in ch[c].errors : e.at # "create"
            /\ ch[c].cpc = "idle" =>
                  /\ ch[c].collection /\ ch[c].transport = "capped"
                  /\ ch[c].lkind = "tail"

\* both channels have ended their creation, one created the collection and
\* the other was told it already exists
C20_Witness ==
    /\ ch["c1"].cpc = "idle" /\ ch["c1"].via = "existingCapped"
    /\ ch["c2"].cpc = "idle" /\ ch["c2"].via = "created"
    /\ ch["c1"].listening /\ ch["c2"].listening

\* every channel of the collection is publish-ready
AllReady == \A c \in DOMAIN ch : ch[c].listening

\* C21  Broadcast fan-out: an envelope inserted when every channel listening
\* on the collection is ready is eventually dispatched by each of them.
C21_FanOut ==
    \A i \in Ids :
        []((AllReady /\ Len(db.docs) < i) =>
              [](Len(db.docs) >= i =>
                    <>(\A c \in DOMAIN ch : i \in DispatchedIds(c))))

\* the listener dispatches in strictly increasing identifier order, and so do
\* the calls of the subscribers follow each other
InIdOrder(c) ==
    /\ \A k, l \in DOMAIN ch[c].dispatched :
          k < l => ch[c].dispatched[k] < ch[c].dispatched[l]
    /\ \A k, l \in DOMAIN ch[c].calls :
          k < l => ch[c].calls[k].id <= ch[c].calls[l].id

\* how many times the channel has called fn as a subscriber of name for
\* envelope id
TimesCalled(c, fn, name, id) ==
    Cardinality({k \in DOMAIN ch[c].calls :
                    /\ ch[c].calls[k].fn = fn /\ ch[c].calls[k].name = name
                    /\ ch[c].calls[k].id = id})

\* C22  Within one listener the envelopes are dispatched in strictly
\* increasing identifier order, with or without a failed fetch in between,
\* and no envelope is dispatched twice to the same subscriber: a subscriber
\* is called for an envelope at most once per registration.
C22_OrderedOnce ==
    \A c \in DOMAIN ch :
        /\ InIdOrder(c)
        /\ \A name \in EmitNames : \A id \in DOMAIN db.docs :
              TimesCalled(c, "plain", name, id)
                  <= Cardinality(Positions(ch[c], name, "plain"))

TransportOneWay(c) ==
    /\ ch[c].transport = "polling" => ch'[c].transport = "polling"
    /\ (ch[c].transport = "capped" /\ ch'[c].transport # "capped") =>
          /\ ch'[c].transport = "polling"
          /\ ch[c].mode = "auto" /\ ch[c].via = "bootUnsupported"

\* C24  Transport state transitions: polling never becomes capped; capped
\* becomes polling only through the capability fallback of mode auto; a
\* closed channel stays closed and its transport does not change any more.
C24_TransportTransitions ==
    [][\A c \in DOMAIN ch :
          /\ TransportOneWay(c)
          /\ ch[c].closed =>
                ch'[c].closed /\ ch'[c].transport = ch[c].transport]_vars

\* C25  Configuration resolution: the mode is the supplied string when it is
\* auto, capped or polling and auto for anything else; retryInterval,
\* pollInterval and pollTtlSeconds are the supplied value when it is a number
\* and 200, 1000 and 0 otherwise; recreate is the supplied value when it is a
\* boolean and true otherwise; and the initialization routes on that mode:
\* polling takes the plain creation and the polling listener, capped the
\* capped creation and the tailable listener without fallback; only auto
\* allows the fallback.
C25_ConfigResolution ==
    \A c \in DOMAIN ch :
        LET raw == ch[c].raw
            o == ch[c].options
            valid == raw.mode.t = "string"
                        /\ raw.mode.s \in {"auto", "capped", "polling"}
        IN  /\ valid => o.mode = raw.mode.s
            /\ ~valid => o.mode = "auto"
            /\ raw.retryInterval.t = "number" => o.retryInterval = raw.retryInterval.n
            /\ raw.retryInterval.t # "number" => o.retryInterval = 200
            /\ raw.pollInterval.t = "number" => o.pollInterval = raw.pollInterval.n
            /\ raw.pollInterval.t # "number" => o.pollInterval = 1000
            /\ raw.pollTtlSeconds.t = "number" => o.pollTtlSeconds = raw.pollTtlSeconds.n
            /\ raw.pollTtlSeconds.t # "number" => o.pollTtlSeconds = 0
            /\ raw.recreate.t = "boolean" => o.recreate = raw.recreate.b
            /\ raw.recreate.t # "boolean" => o.recreate = TRUE
            /\ ch[c].mode = o.mode
            /\ ch[c].pollTtlSeconds = o.pollTtlSeconds
            /\ ch[c].recreate = o.recreate
            /\ o.mode = "polling" =>
                  /\ ch[c].lkind = "poll" /\ ~ch[c].allowFallback
                  /\ ch[c].cpc \in {"wcPolling", "createPolling", "ttlIndex", "idle"}
                  /\ ch[c].transport \in {None, "polling"}
            /\ o.mode = "capped" =>
                  /\ ch[c].lkind = "tail" /\ ~ch[c].allowFallback
                  /\ ch[c].cpc \in {"wcCapped", "createCapped", "isCapped", "idle"}
                  /\ ch[c].transport \in {None, "capped"}
            /\ o.mode = "auto" => ch[c].allowFallback

\* a channel given a mode that is none of the three, a pollInterval of 0, a
\* pollTtlSeconds that is a string and a recreate that is a number is ready
C25_Witness ==
    \E c \in DOMAIN ch :
        /\ ch[c].raw.mode = Str("tailable")
        /\ ch[c].raw.pollInterval = Num(0)
        /\ ch[c].raw.pollTtlSeconds = Str("60")
        /\ ch[c].raw.recreate = Num(0)
        /\ ch[c].listening

\* C26  Connection state: it is connecting while the connection is open and
\* has no database handle; it was connected when 'connect' was emitted on an
\* open connection; it is destroyed in every state after close() was called,
\* whatever the handle and the client say; and the callback of close() ran
\* in state destroyed.
C26_ConnectionState ==
    \A c \in DOMAIN ch :
        LET r == ch[c] IN
        /\ (r.closes = 0 /\ ~r.connDb) => state(r) = "connecting"
        /\ r.connects > 0 =>
              \/ r.atConnect = "connected"
              \/ r.atConnect = "destroyed" /\ r.closes > 0
        /\ r.closes > 0 => state(r) = "destroyed"
        /\ r.closeCb = "called" => r.atCallback = "destroyed"

\* the connection was closed with a callback after it had connected, and the
\* callback has run
C26_Witness ==
    \E c \in DOMAIN ch :
        /\ ch[c].connects = 1 /\ ch[c].atConnect = "connected"
        /\ ch[c].closeCb = "called"

\* the instances a step of the connection returns: a new one, or one whose
\* count of returns grows
ReturnedNow ==
    {i \in DOMAIN ch' : i \notin DOMAIN ch \/ ch'[i].returned > ch[i].returned}

\* C27  Channel registry get-or-create, an omitted name being the name
\* 'mubsub': a call returns the open channel of that name when the connection
\* has one, as it was (no second initialization, the options of the call
\* ignored), and creates a channel only when it has none or only closed ones.
C27_GetOrCreate ==
    [][\A i \in ReturnedNow :
          LET open == {j \in DOMAIN ch :
                          ch[j].name = ch'[i].name /\ ~ch[j].closed}
          IN  IF open = {}
              THEN i \notin DOMAIN ch
              ELSE /\ open = {i}
                   /\ ch'[i] = [ch[i] EXCEPT !.returned = @ + 1]]_vars

\* the broken-cursor fault has been reported as a channel error
BrokenReported(c) == \E e \in ch[c].errors : e.at = "broken"

\* the tailable cursor has ended with no envelope: the delay is running, or
\* it has run out
CursorBroke(c) == ch[c].lpc = "brokenDelay" \/ BrokenReported(c)

\* C28  Broken cursor with recreate enabled: the fault is eventually reported
\* as a channel error, and every envelope above the watermark the listener
\* had reached, inserted during or after the break, is eventually dispatched,
\* unless the channel or its connection is closed.
C28_RecreateResumes ==
    \A c \in Chans :
        /\ []((ch[c].recreate /\ CursorBroke(c)) =>
                  <>(BrokenReported(c) \/ Stopped(c)))
        /\ \A i \in Ids :
              []((ch[c].recreate /\ CursorBroke(c)
                     /\ i <= Len(db.docs) /\ i > ch[c].latest) =>
                    <>(i \in DispatchedIds(c) \/ Stopped(c)))

\* C29  Broken cursor with recreate disabled: when the delay ends the fault
\* is reported as a channel error and the listener is stopped; from the
\* moment the cursor has ended with no envelope the channel issues no cursor
\* read and no fetch and dispatches nothing, whatever is published.
C29_NoRecreateStops ==
    [][\A c \in DOMAIN ch :
          (~ch[c].recreate /\ CursorBroke(c)) =>
              /\ ch'[c].lpc \in {"brokenDelay", "stopped"}
              /\ ch[c].lpc = "stopped" => ch'[c].lpc = "stopped"
              /\ ch'[c].lpc = "stopped" =>
                    \E e \in ch'[c].errors : e.at = "broken"
              /\ ch'[c].dispatched = ch[c].dispatched
              /\ ch'[c].calls = ch[c].calls
              /\ ch'[c].latest = ch[c].latest]_vars

\* recreate is off, the fault has been reported, the listener is stopped on
\* an open channel, and the collection holds an envelope above the watermark
C29_Witness ==
    \E c \in DOMAIN ch :
        /\ ~ch[c].recreate /\ ~ch[c].closed /\ ~ch[c].destroyed
        /\ \E e \in ch[c].errors : e.at = "broken"
        /\ ch[c].lpc = "stopped"
        /\ Len(db.docs) > ch[c].latest

\* the identifiers from..to in ascending order
IdRange(from, to) == [k \in 1..(to - from + 1) |-> from + k - 1]

\* C30  Polling retry: on a channel that is and stays open, with its
\* connection, a fetch in flight ends either in an error or in a result.  The
\* error is reported as a channel error of the fetch and leaves the watermark
\* and the dispatched envelopes as they were; the result dispatches every
\* envelope above the watermark in ascending order.  Either way the next poll
\* is scheduled, and the timer that fires issues the next fetch: polling
\* never stops.
C30_PollingRetry ==
    [][\A c \in DOMAIN ch :
          (~Stopped(c) /\ ~ch'[c].closed /\ ~ch'[c].destroyed) =>
              /\ (ch[c].lpc = "pollFetch" /\ ch'[c].lpc # "pollFetch") =>
                    /\ ch'[c].lpc = "pollTimer" /\ ch'[c].pollingTimer
                    /\ \/ /\ [at |-> "poll", err |-> ErrNetwork] \in ch'[c].errors
                          /\ ch'[c].latest = ch[c].latest
                          /\ ch'[c].dispatched = ch[c].dispatched
                       \/ /\ ch'[c].errors = ch[c].errors
                          /\ ch'[c].dispatched = ch[c].dispatched
                                \o IdRange(ch[c].latest + 1, Len(db.docs))
                          /\ ch'[c].latest >= Len(db.docs)
              /\ (ch[c].lpc = "pollTimer" /\ ch'[c].lpc # "pollTimer") =>
                    ch'[c].lpc = "pollFetch"]_vars

\* a fetch has failed, an envelope was dispatched, and the next fetch is in
\* flight while another envelope is above the watermark
C30_Witness ==
    \E c \in DOMAIN ch :
        /\ ~ch[c].closed /\ ~ch[c].destroyed
        /\ [at |-> "poll", err |-> ErrNetwork] \in ch[c].errors
        /\ Len(ch[c].dispatched) = 1
        /\ ch[c].lpc = "pollFetch"
        /\ Len(db.docs) > ch[c].latest

\* C31  Once close() has been called the channel has no pending poll timer,
\* also when a fetch that was in flight at close completes afterwards with a
\* result or with an error, and no step of the closed channel issues another
\* fetch or cursor read.
C31_NoTimerAfterClose ==
    [][\A c \in DOMAIN ch :
          ch'[c].closed =>
              /\ ch'[c].lpc # "pollTimer"
              /\ (ch[c].closed /\ ch'[c].lpc # ch[c].lpc) =>
                    ch'[c].lpc \notin {"pollFetch", "tailNext"}]_vars
\* the anchor documents channel c has inserted
Anchors(c) == {i \in DOMAIN db.docs : db.docs[i].dummy /\ db.docs[i].src = c}

\* C32  A channel on the polling transport, by whatever path it got there,
\* has inserted no anchor document, and when its bootstrap read found the
\* collection empty its initial watermark is the sentinel 0, which is below
\* every identifier.
C32_PollingNoAnchor ==
    \A c \in DOMAIN ch :
        ch[c].transport = "polling" =>
            /\ Anchors(c) = {}
            /\ (ch[c].bootLen = 0 /\ ch[c].wm0 >= 0) => ch[c].wm0 = 0
ReadyAfterWatermark(c) ==
    /\ (ch[c].readies > 0 \/ ch[c].listening) =>
          /\ ch[c].wm0 >= 0 /\ ch[c].latest >= ch[c].wm0
          /\ ch[c].lpc \notin {"waitColl", "find", "findGt", "insertDummy"}
    /\ \A i \in Published(c) : i > ch[c].wm0

\* C34  Readiness ordering: readiness is emitted only after the listener has
\* its initial watermark, so every envelope the channel publishes has an
\* identifier above that watermark, and it is eventually dispatched by the
\* channel's own listener unless the channel or its connection is closed.
C34_ReadinessOrdering ==
    \A c \in Chans :
        /\ []ReadyAfterWatermark(c)
        /\ \A i \in Ids :
              [](i \in Published(c) => <>(i \in DispatchedIds(c) \/ Stopped(c)))
\* the anchor insert of the tailable bootstrap ends in this step, on a channel
\* that is open with its connection
AnchorInsertEnds(c) ==
    ch[c].lpc = "insertDummy" /\ ch'[c].lpc # "insertDummy" /\ ~Stopped(c)

\* the insert resolved: the anchor is the one document the step adds, its
\* identifier is the initial watermark and the cursor is open
AnchorAdopted(c) ==
    /\ Len(db'.docs) = Len(db.docs) + 1
    /\ db'.docs[Len(db'.docs)] = Doc(None, TRUE, c)
    /\ ch'[c].wm0 = Len(db'.docs) /\ ch'[c].latest = ch'[c].wm0
    /\ ch'[c].lpc = "tailNext" /\ ch'[c].listening

\* the insert failed and its error is reported: no cursor, no readiness
AnchorFailureReported(c) ==
    /\ db' = db
    /\ \E err \in BootErrors :
          [at |-> "bootstrap", err |-> err] \in ch'[c].errors \ ch[c].errors
    /\ ch'[c].lpc = "stopped" /\ ch'[c].lkind = "tail"
    /\ ~ch'[c].listening /\ ch'[c].readies = 0

\* the insert failed in mode auto with a capability-unsupported error: nothing
\* is reported and the polling listener is started on the plain collection
AnchorFailureAbsorbed(c) ==
    /\ db' = db
    /\ ch[c].mode = "auto" /\ isCappedUnsupportedError(ch'[c].absorbed)
    /\ ch'[c].errors = ch[c].errors
    /\ ch'[c].lkind = "poll" /\ ch'[c].lpc \in {"waitColl", "find"}
    /\ ~ch'[c].listening /\ ch'[c].readies = 0

\* a channel never has more than one anchor in the store, and a tailable
\* listener that is ready after it found the collection empty has exactly
\* one, whose identifier is its initial watermark
OneAnchor(c) ==
    /\ Cardinality(Anchors(c)) <= 1
    /\ (ch[c].lkind = "tail" /\ ch[c].listening /\ ch[c].bootLen = 0) =>
          Anchors(c) = {ch[c].wm0}

\* C35  (as stated) The tailable bootstrap on an empty collection inserts
\* exactly one anchor and adopts its identifier as the initial watermark; if
\* the insert fails the error is reported, no cursor is opened and the
\* channel does not become ready on the tailable path.
C35_AnchorBootstrap ==
    [][\A c \in DOMAIN ch :
          /\ OneAnchor(c)'
          /\ AnchorInsertEnds(c) =>
                AnchorAdopted(c) \/ AnchorFailureReported(c)]_vars

\* C35  (amended) ... if the insert fails the error is reported, no cursor is
\* opened and the channel does not become ready on the tailable path, except
\* in mode auto when the error is a capability-unsupported one: then nothing
\* is reported and the channel starts the polling listener.
C35_AnchorBootstrapOrFallback ==
    [][\A c \in DOMAIN ch :
          /\ OneAnchor(c)'
          /\ AnchorInsertEnds(c) =>
                \/ AnchorAdopted(c)
                \/ AnchorFailureReported(c)
                      /\ ~(ch[c].mode = "auto" /\ \A e \in ch'[c].errors \ ch[c].errors :
                                                     isCappedUnsupportedError(e.err))
                \/ AnchorFailureAbsorbed(c)]_vars

\* a channel in mode auto whose anchor insert failed with an unsupported
\* error is ready on the polling listener, and has no anchor in the store
C35_Witness ==
    \E c \in DOMAIN ch :
        /\ ch[c].absorbed # NoErr /\ ch[c].bootLen = 0
        /\ ch[c].lkind = "poll" /\ ch[c].listening
        /\ Anchors(c) = {}
\* the listener's loop is running: a cursor read or a fetch is in flight, or
\* a poll or broken-cursor timer is armed
LoopRunning(r) == r.lpc \in {"tailNext", "brokenDelay", "pollFetch", "pollTimer"}

\* C36  A channel emits readiness at most once, and a channel that was closed,
\* or whose connection was closed, before its bootstrap callback ran never
\* emits readiness, never becomes publish-ready and never starts a cursor or
\* a poll loop: no step changes that.
C36_ReadyOnce ==
    [][\A c \in DOMAIN ch :
          /\ ch'[c].readies <= 1
          /\ (Stopped(c) /\ ch[c].wm0 = -1) =>
                /\ ch'[c].readies = 0 /\ ~ch'[c].listening
                /\ ch'[c].wm0 = -1
                /\ ~LoopRunning(ch'[c])
                /\ ch'[c].issued = <<>>]_vars

\* the connection was closed while the second bootstrap read was in flight;
\* the read has been answered, the listener has stopped and is not ready,
\* with a publish waiting
C36_Witness ==
    \E c \in DOMAIN ch :
        /\ ch[c].destroyed /\ ~ch[c].closed
        /\ ch[c].bootLen >= 1 /\ ch[c].lpc = "stopped"
        /\ ch[c].wm0 = -1 /\ ch[c].readies = 0
        /\ Len(ch[c].pubs) >= 1
\* the operations and timers of the tailable loop and of the polling loop
\* that channel c has outstanding
TailLoop(c) == Pending(c, "cursorNext") + Pending(c, "brokenTimer")

PollLoop(c) == Pending(c, "fetch") + Pending(c, "pollTimer")

\* C37  At most one listener loop runs on a channel: never more than one
\* polling fetch in flight plus pending poll timer, never more than one
\* cursor read plus broken-cursor timer, and never a polling loop and a
\* tailable loop at once, on every initialization and fallback path.
C37_OneLoop ==
    \A c \in DOMAIN ch :
        /\ PollLoop(c) <= 1
        /\ TailLoop(c) <= 1
        /\ PollLoop(c) + TailLoop(c) <= 1

\* a channel in mode auto whose tailable bootstrap fell back runs the
\* polling loop: a fetch is in flight after a timer has fired
C37_Witness ==
    \E c \in DOMAIN ch :
        /\ ch[c].mode = "auto"
        /\ Pending(c, "fetch") = 1 /\ ch[c].timer = "fired"
\* C38  Dispatching an envelope never changes the channel's lifecycle,
\* whatever its event name: a step that dispatches releases no waiting
\* publish and issues none, starts no bootstrap and no creation, and leaves
\* the collection handle, the transport and the readiness as they were.
C38_DispatchKeepsLifecycle ==
    [][\A c \in DOMAIN ch :
          NewIds(c) # {} =>
              /\ ch'[c].pubs = ch[c].pubs /\ ch'[c].issued = ch[c].issued
              /\ ch'[c].cpc = ch[c].cpc
              /\ ch'[c].lpc \notin {"waitColl", "find", "findGt", "insertDummy"}
              /\ ch'[c].collection = ch[c].collection
              /\ ch'[c].transport = ch[c].transport
              /\ ch'[c].listening = ch[c].listening
              /\ ch'[c].readies = ch[c].readies
              /\ ch'[c].uncaught = ch[c].uncaught]_vars

\* a channel has dispatched an envelope named 'ready' and one named
\* 'collection', one of them its own
C38_Witness ==
    \E c \in DOMAIN ch :
        /\ \E k \in DOMAIN ch[c].dispatched :
              db.docs[ch[c].dispatched[k]].event = "ready"
        /\ \E k \in DOMAIN ch[c].dispatched :
              db.docs[ch[c].dispatched[k]].event = "collection"
        /\ \E k \in DOMAIN ch[c].dispatched :
              db.docs[ch[c].dispatched[k]].src = c
\* the channel has issued no store operation and reported nothing: its create
\* function waits for 'connect' and its listener for 'collection'
WaitsForConnect(r) ==
    /\ r.cpc \in {"wcCapped", "wcPolling"} /\ r.lpc = "waitColl"
    /\ ~r.collection /\ r.transport = None
    /\ ~r.listening /\ r.readies = 0
    /\ r.errors = {} /\ r.indexOps = 0 /\ r.issued = <<>>

Creating(r) == r.cpc \in {"createCapped", "createPolling"}

====
